---- MODULE Spec2Model ----
(***************************************************************************)
(* The index scheduler: the persistent task queue with its secondary      *)
(* indexes (index-scheduler/src/utils.rs), the selection of the next      *)
(* batch and its execution (index-scheduler/src/batch.rs).                 *)
(*                                                                         *)
(* Registrations and the ticks of the scheduler loop are serialized by the *)
(* write transaction of the task store; each is one step.                  *)
(***************************************************************************)
EXTENDS Integers, Sequences, FiniteSets, Bags, TLC

(***************************************************************************)
(* Bounds of the exploration.                                              *)
(***************************************************************************)
\* number of registrations explored in one behaviour
MaxTasks == 3

\* number of registrations explored in one behaviour of SpecSwap
MaxSwapTasks == 5

\* number of registrations explored in one behaviour of SpecDeletion
MaxDeletionTasks == 8

\* the clock advances by one per batch, and a batch holds at least one task
MaxClock == MaxTasks + MaxSwapTasks + MaxDeletionTasks

Times == 0 .. MaxClock

(***************************************************************************)
(* Values of the data model.                                               *)
(***************************************************************************)
NoTime == 0 - 1
NoTask == 0 - 1
NoUuid == 0 - 1
NoCount == 0 - 1
NoIndex == "-"
NoKey == "-"
NoError == "-"
NoSettings == "-"

Enqueued == "Enqueued"
Processing == "Processing"
Succeeded == "Succeeded"
Failed == "Failed"
Canceled == "Canceled"

Status == {Enqueued, Processing, Succeeded, Failed, Canceled}

Terminal == {Succeeded, Failed, Canceled}

Kind ==
  {"DocumentAdditionOrUpdate", "DocumentDeletion", "DocumentClear", "SettingsUpdate",
   "IndexCreation", "IndexUpdate", "IndexDeletion", "IndexSwap",
   "TaskCancelation", "TaskDeletion", "DumpExport", "Snapshot"}

IndexNames == {"a", "b", "c", "d"}

\* the kinds whose payload names one index
SingleIndexKinds ==
  {"DocumentAdditionOrUpdate", "DocumentDeletion", "DocumentClear", "SettingsUpdate",
   "IndexCreation", "IndexUpdate", "IndexDeletion"}

(***************************************************************************)
(* Sequences and bitmaps.  A RoaringBitmap is a set of uids; iterating it  *)
(* yields the uids in increasing order.                                    *)
(***************************************************************************)
Max(S) == CHOOSE x \in S : \A y \in S : y <= x

Min(S) == CHOOSE x \in S : \A y \in S : x <= y

RECURSIVE SortedSeq(_)
SortedSeq(S) == IF S = {} THEN << >> ELSE << Min(S) >> \o SortedSeq(S \ {Min(S)})

Range(s) == {s[i] : i \in 1 .. Len(s)}

Take(s, n) == IF Len(s) <= n THEN s ELSE SubSeq(s, 1, n)

(***************************************************************************)
(* KindWithContent, Details and Task.  Every record carries every field;   *)
(* a field that a variant does not have holds the None value of its type.  *)
(***************************************************************************)
KindWithContent(tag, index_uid, swaps, tasks, content_file, primary_key, method, allow) ==
  [tag |-> tag, index_uid |-> index_uid, swaps |-> swaps, tasks |-> tasks,
   content_file |-> content_file, primary_key |-> primary_key, method |-> method,
   allow_index_creation |-> allow, documents_ids |-> << >>, new_settings |-> NoSettings]

DocumentAdditionOrUpdate(index_uid, primary_key, method, content_file, allow) ==
  KindWithContent("DocumentAdditionOrUpdate", index_uid, << >>, {}, content_file,
                  primary_key, method, allow)

DocumentDeletion(index_uid) ==
  KindWithContent("DocumentDeletion", index_uid, << >>, {}, NoUuid, NoKey, "-", FALSE)

\* a DocumentDeletion with the ids of the documents to delete
DocumentDeletionOf(index_uid, documents_ids) ==
  [DocumentDeletion(index_uid) EXCEPT !.documents_ids = documents_ids]

DocumentClear(index_uid) ==
  KindWithContent("DocumentClear", index_uid, << >>, {}, NoUuid, NoKey, "-", FALSE)

SettingsUpdate(index_uid, allow) ==
  KindWithContent("SettingsUpdate", index_uid, << >>, {}, NoUuid, NoKey, "-", allow)

\* a SettingsUpdate with the settings to apply
SettingsUpdateOf(index_uid, allow, new_settings) ==
  [SettingsUpdate(index_uid, allow) EXCEPT !.new_settings = new_settings]

IndexCreation(index_uid, primary_key) ==
  KindWithContent("IndexCreation", index_uid, << >>, {}, NoUuid, primary_key, "-", FALSE)

IndexUpdate(index_uid, primary_key) ==
  KindWithContent("IndexUpdate", index_uid, << >>, {}, NoUuid, primary_key, "-", FALSE)

IndexDeletion(index_uid) ==
  KindWithContent("IndexDeletion", index_uid, << >>, {}, NoUuid, NoKey, "-", FALSE)

IndexSwap(swaps) ==
  KindWithContent("IndexSwap", NoIndex, swaps, {}, NoUuid, NoKey, "-", FALSE)

TaskCancelation(tasks) ==
  KindWithContent("TaskCancelation", NoIndex, << >>, tasks, NoUuid, NoKey, "-", FALSE)

TaskDeletion(tasks) ==
  KindWithContent("TaskDeletion", NoIndex, << >>, tasks, NoUuid, NoKey, "-", FALSE)

DumpExport == KindWithContent("DumpExport", NoIndex, << >>, {}, NoUuid, NoKey, "-", FALSE)

Snapshot == KindWithContent("Snapshot", NoIndex, << >>, {}, NoUuid, NoKey, "-", FALSE)

\* Task::indexes: the index names a task refers to
indexes(kind) ==
  IF kind.tag = "IndexSwap"
    THEN UNION {{kind.swaps[i][1], kind.swaps[i][2]} : i \in 1 .. Len(kind.swaps)}
    ELSE IF kind.tag \in SingleIndexKinds THEN {kind.index_uid} ELSE {}

\* Task::indexes()[0], the name create_next_batch batches on
first_index(kind) ==
  IF kind.tag = "IndexSwap" THEN kind.swaps[1][1] ELSE kind.index_uid

\* Task::content_uuid
content_uuid(kind) ==
  IF kind.tag = "DocumentAdditionOrUpdate" THEN kind.content_file ELSE NoUuid

\* FileStore::get_update: the content of the file, fixed when the file is written: a
\* function of its uuid
get_update(uuid) ==
  [key |-> IF uuid % 4 < 2 THEN "id" ELSE "sku",
   docs |-> IF uuid % 2 = 0 THEN {1} ELSE {1, 2}]

Details(tag, matched_tasks, canceled_tasks, deleted_tasks, swaps, primary_key) ==
  [tag |-> tag, matched_tasks |-> matched_tasks, canceled_tasks |-> canceled_tasks,
   deleted_tasks |-> deleted_tasks, swaps |-> swaps, primary_key |-> primary_key,
   received_documents |-> NoCount, indexed_documents |-> NoCount,
   received_document_ids |-> NoCount, deleted_documents |-> NoCount]

\* the documents_count of a DocumentAdditionOrUpdate: the number of documents
\* written to its content file when the task was registered
documents_count(kind) == Cardinality(get_update(kind.content_file).docs)

\* KindWithContent::default_details: the details a task is registered with
default_details(kind) ==
  CASE kind.tag = "TaskCancelation" ->
         Details("TaskCancelation", Cardinality(kind.tasks), NoCount, NoCount, << >>, NoKey)
    [] kind.tag = "TaskDeletion" ->
         Details("TaskDeletion", Cardinality(kind.tasks), NoCount, NoCount, << >>, NoKey)
    [] kind.tag = "IndexSwap" ->
         Details("IndexSwap", NoCount, NoCount, NoCount, kind.swaps, NoKey)
    [] kind.tag \in {"IndexCreation", "IndexUpdate"} ->
         Details("IndexInfo", NoCount, NoCount, NoCount, << >>, kind.primary_key)
    [] kind.tag \in {"DocumentClear", "IndexDeletion"} ->
         Details("ClearAll", NoCount, NoCount, NoCount, << >>, NoKey)
    [] kind.tag = "DumpExport" ->
         Details("Dump", NoCount, NoCount, NoCount, << >>, NoKey)
    [] kind.tag = "Snapshot" ->
         Details("None", NoCount, NoCount, NoCount, << >>, NoKey)
    [] kind.tag = "DocumentAdditionOrUpdate" ->
         [Details(kind.tag, NoCount, NoCount, NoCount, << >>, NoKey)
            EXCEPT !.received_documents = documents_count(kind)]
    [] kind.tag = "DocumentDeletion" ->
         [Details(kind.tag, NoCount, NoCount, NoCount, << >>, NoKey)
            EXCEPT !.received_document_ids = Len(kind.documents_ids)]
    [] OTHER ->
         Details(kind.tag, NoCount, NoCount, NoCount, << >>, NoKey)

Task(uid, enqueued_at, kind) ==
  [uid |-> uid, enqueued_at |-> enqueued_at, started_at |-> NoTime, finished_at |-> NoTime,
   error |-> NoError, canceled_by |-> NoTask, details |-> default_details(kind),
   status |-> Enqueued, kind |-> kind]

(***************************************************************************)
(* Indexes and content files.  An index is its primary key, its documents  *)
(* (document id -> the content file that wrote it last) and its settings.  *)
(* The content of a file is fixed when it is written: it is a function of  *)
(* its uuid.  The documents of a file carry their id in one field, its     *)
(* key.                                                                    *)
(***************************************************************************)
Index(primary_key, documents, settings) ==
  [primary_key |-> primary_key, documents |-> documents, settings |-> settings]

\* an index as IndexMapper::create_index makes it
EmptyIndex == Index(NoKey, << >>, NoSettings)

(***************************************************************************)
(* meilidb-schema.  An attribute name is a number standing for a string.   *)
(* A SchemaBuilder is its identifier and its attributes, a LinkedHashMap:  *)
(* the sequence of its (name, props) entries in insertion order.  The      *)
(* HashMap attrs of a schema is the set of its (name, SchemaAttr) entries. *)
(***************************************************************************)
\* a schema that is not under test, and a round trip that has not run
NoBuilder == [identifier |-> NoKey, attributes |-> << >>, more |-> 0]

NotRead ==
  [format |-> "-", done |-> FALSE, identifier |-> NoKey, attributes |-> 0,
   same_identifier |-> TRUE, same_attrs |-> TRUE, same_props |-> TRUE]

SchemaProps(stored, indexed, ranked) ==
  [stored |-> stored, indexed |-> indexed, ranked |-> ranked]

STORED == SchemaProps(TRUE, FALSE, FALSE)

INDEXED == SchemaProps(FALSE, TRUE, FALSE)

RANKED == SchemaProps(FALSE, FALSE, TRUE)

\* impl BitOr for SchemaProps
BitOr(self, other) ==
  SchemaProps(self.stored \/ other.stored, self.indexed \/ other.indexed,
              self.ranked \/ other.ranked)

\* `as u16`: the low 16 bits
as_u16(i) == i % 65536

SchemaBuilder(identifier, attributes) == [identifier |-> identifier, attributes |-> attributes]

InnerSchema(identifier, attrs, props) ==
  [identifier |-> identifier, attrs |-> attrs, props |-> props]

\* SchemaBuilder::build
build(self) ==
  InnerSchema(self.identifier,
              {<< self.attributes[i][1], as_u16(i - 1) >> : i \in 1 .. Len(self.attributes)},
              self.attributes)

\* the orders in which attributes_ordered can meet the entries of the HashMap
\* attrs, as far as its result depends on it: of the names that share a
\* SchemaAttr, the one met last stays in the BTreeMap; it is the one built first
\* or the one built last
hash_orders(len) == IF len > 65536 THEN {"first", "last"} ELSE {"first"}

\* the position in props of the name attributes_ordered keeps for a SchemaAttr
kept(attr, len, order) ==
  IF order = "last" /\ attr + 1 + 65536 <= len THEN attr + 1 + 65536 ELSE attr + 1

\* Schema::attributes_ordered for a schema made by build: one entry for every
\* SchemaAttr of attrs, in increasing order, with a name attrs maps to it and
\* the props found in props at the index of the SchemaAttr
\* a function on 1 .. n as a sequence
Vec(f) == f \o << >>

ordered(props, len, n, order) ==
  Vec([k \in 1 .. n |-> << props[kept(k - 1, len, order)][1], props[k][2] >>])

\* Schema::attributes_ordered
attributes_ordered(inner, order) ==
  CHOOSE attributes \in
    {ordered(inner.props, Len(inner.props), Cardinality({p[2] : p \in inner.attrs}), order)} :
    TRUE

\* LinkedHashMap::insert: a key that is present already moves to the back
LinkedHashMap_insert(map, entry) ==
  SelectSeq(map, LAMBDA e : e[1] # entry[1]) \o << entry >>

RECURSIVE LinkedHashMap_extend(_, _)
LinkedHashMap_extend(map, entries) ==
  IF entries = << >> THEN map
  ELSE LinkedHashMap_extend(LinkedHashMap_insert(map, Head(entries)), Tail(entries))

\* the LinkedHashMap a deserializer builds from the entries it reads, in the
\* order it reads them
LinkedHashMap_from(entries) ==
  IF Cardinality({entries[i][1] : i \in 1 .. Len(entries)}) = Len(entries) THEN entries
  ELSE LinkedHashMap_extend(<< >>, entries)

\* bincode::serialize_into of a SchemaBuilder: the identifier, the number of
\* attributes, then the name and the three flags of every attribute
bincode_serialize(self) ==
  Vec([j \in 1 .. 2 + 4 * Len(self.attributes) |->
     IF j = 1 THEN self.identifier
     ELSE IF j = 2 THEN Len(self.attributes)
     ELSE IF (j - 3) % 4 = 0 THEN self.attributes[(j - 3) \div 4 + 1][1]
     ELSE IF (j - 3) % 4 = 1 THEN self.attributes[(j - 3) \div 4 + 1][2].stored
     ELSE IF (j - 3) % 4 = 2 THEN self.attributes[(j - 3) \div 4 + 1][2].indexed
     ELSE self.attributes[(j - 3) \div 4 + 1][2].ranked])

\* bincode::deserialize_from
bincode_deserialize(bytes) ==
  CHOOSE self \in
    {SchemaBuilder(bytes[1], LinkedHashMap_from(entries)) :
       entries \in {Vec([i \in 1 .. bytes[2] |->
                          << bytes[4 * i - 1],
                             SchemaProps(bytes[4 * i], bytes[4 * i + 1], bytes[4 * i + 2]) >>])}} :
    TRUE

\* toml::to_string_pretty of a SchemaBuilder: the identifier, then one table
\* [attributes.name] for every attribute
toml_to_string(self) ==
  [identifier |-> self.identifier,
   tables |-> Vec([i \in 1 .. Len(self.attributes) |->
                     [header |-> << "attributes", self.attributes[i][1] >>,
                      stored |-> self.attributes[i][2].stored,
                      indexed |-> self.attributes[i][2].indexed,
                      ranked |-> self.attributes[i][2].ranked]])]

\* toml::from_slice
toml_from_slice(buffer) ==
  CHOOSE self \in
    {SchemaBuilder(buffer.identifier, LinkedHashMap_from(entries)) :
       entries \in {Vec([i \in 1 .. Len(buffer.tables) |->
                          << buffer.tables[i].header[2],
                             SchemaProps(buffer.tables[i].stored, buffer.tables[i].indexed,
                                         buffer.tables[i].ranked) >>])}} :
    TRUE

\* serde_json::to_string_pretty of a SchemaBuilder: an object with the
\* identifier and the object of the attributes, one member for every attribute
serde_json_to_string(self) ==
  [identifier |-> self.identifier,
   attributes |-> Vec([i \in 1 .. Len(self.attributes) |->
                         [key |-> self.attributes[i][1], value |-> self.attributes[i][2]]])]

\* serde_json::from_slice
serde_json_from_slice(buffer) ==
  CHOOSE self \in
    {SchemaBuilder(buffer.identifier, LinkedHashMap_from(entries)) :
       entries \in {Vec([i \in 1 .. Len(buffer.attributes) |->
                          << buffer.attributes[i].key, buffer.attributes[i].value >>])}} :
    TRUE

\* Schema::write_to_bin, Schema::to_toml, Schema::to_json
write(format, inner, order) ==
  CHOOSE buffer \in
    {CASE format = "bin" -> bincode_serialize(self)
       [] format = "toml" -> toml_to_string(self)
       [] format = "json" -> serde_json_to_string(self) :
       self \in {SchemaBuilder(inner.identifier, attributes) :
                   attributes \in {attributes_ordered(inner, order)}}} :
    TRUE

\* Schema::read_from_bin, Schema::from_toml, Schema::from_json
read(format, buffer) ==
  CHOOSE inner \in
    {build(self) :
       self \in {CASE format = "bin" -> bincode_deserialize(buffer)
                   [] format = "toml" -> toml_from_slice(buffer)
                   [] format = "json" -> serde_json_from_slice(buffer)}} :
    TRUE

(***************************************************************************)
(* The state of the scheduler.                                             *)
(***************************************************************************)
VARIABLES
  all_tasks,            \* uid -> task record, the canonical store
  status,               \* status -> bitmap of uids
  kind,                 \* kind -> bitmap of uids
  index_tasks,          \* index name -> bitmap of uids (an absent key is the empty bitmap)
  enqueued_at,          \* timestamp -> bitmap of uids
  started_at,           \* timestamp -> bitmap of uids
  finished_at,          \* timestamp -> bitmap of uids
  file_store,           \* the uuids of the content files on disk
  index_mapper,         \* the names of the indexes that exist
  index_data,           \* index name -> the content of the index
  processing_tasks,     \* the uids of the batch being processed (in memory)
  autobatching_enabled, \* configuration flag
  batch,                \* the batch selected by the last tick
  pc,                   \* position of the scheduler loop
  now,                  \* the clock
  registered,           \* number of registrations so far
  inputs,               \* the class of inputs the behaviour registers
  faults,               \* the failures of the store and the disk met by the last tick
  schema_builder,       \* the SchemaBuilder calls of a schema under test
  roundtrip,            \* the schema read back from its serialized form, compared
  swapped,              \* a task under swap_index_uid_in_task, with the swaps applied
  shared_schema,        \* a Schema shared by the callers of new_attribute
  callers,              \* caller of new_attribute -> its position and what it was returned
  cache,                \* a SorterCacheDelAddCboRoaringBitmap, its sorter and what was inserted
  query                 \* a search query under add_search_rules

vars ==
  << all_tasks, status, kind, index_tasks, enqueued_at, started_at, finished_at, file_store,
     index_mapper, index_data, processing_tasks, autobatching_enabled, batch, pc, now,
     registered, inputs, faults, schema_builder, roundtrip, swapped, shared_schema, callers,
     cache, query >>

\* the values under test of the functions that are checked on their own
units == << swapped, shared_schema, callers, cache, query >>

\* no function is under test
Unused == "-"

NoUnits ==
  /\ swapped = Unused
  /\ shared_schema = Unused
  /\ callers = Unused
  /\ cache = Unused
  /\ query = Unused

(***************************************************************************)
(* The task store as one value: what a transaction reads and writes.       *)
(* fault records an error or a failed assertion met inside the             *)
(* transaction.                                                            *)
(***************************************************************************)
DB ==
  [all_tasks |-> all_tasks, status |-> status, kind |-> kind, index_tasks |-> index_tasks,
   enqueued_at |-> enqueued_at, started_at |-> started_at, finished_at |-> finished_at,
   fault |-> "none"]

\* IndexScheduler::all_task_ids: the union of the status bitmaps
all_task_ids(db) == UNION {db.status[s] : s \in Status}

\* last_task_id that leaves one uid out
last_task_id_skipping(tasks) == IF DOMAIN tasks = {} THEN NoTask ELSE Max(DOMAIN tasks) + 2

\* IndexScheduler::last_task_id: one plus the last key of all_tasks
last_task_id(tasks) == IF DOMAIN tasks = {} THEN NoTask ELSE Max(DOMAIN tasks) + 1

\* next_task_id that takes the number of stored tasks
next_task_id_counting(tasks) == Cardinality(DOMAIN tasks)

\* IndexScheduler::next_task_id
next_task_id(tasks) == IF last_task_id(tasks) = NoTask THEN 0 ELSE last_task_id(tasks)

\* all_tasks.put
put_task(tasks, task) ==
  [u \in DOMAIN tasks \cup {task.uid} |-> IF u = task.uid THEN task ELSE tasks[u]]

\* all_tasks.delete of a set of keys
delete_tasks(tasks, uids) == [u \in DOMAIN tasks \ uids |-> tasks[u]]

\* insert_task_datetime that inserts nothing
insert_task_datetime_nowhere(database, time, task_id) == database

\* utils::insert_task_datetime
insert_task_datetime(database, time, task_id) ==
  [database EXCEPT ![time] = @ \cup {task_id}]

\* move_status that leaves the uid in the bitmap it comes from
move_status_keeping(bitmaps, from, to, uid) == [bitmaps EXCEPT ![to] = @ \cup {uid}]

\* IndexScheduler::update_status with a removal, then with an insertion
move_status(bitmaps, from, to, uid) ==
  [[bitmaps EXCEPT ![from] = @ \ {uid}] EXCEPT ![to] = @ \cup {uid}]

\* IndexScheduler::update_task
update_task(db, task) ==
  IF db.fault # "none" THEN db
  ELSE IF task.uid \notin DOMAIN db.all_tasks THEN [db EXCEPT !.fault = "CorruptedTaskQueue"]
  ELSE
    LET old_task == db.all_tasks[task.uid]
        db1 == IF old_task.status # task.status
                 THEN [db EXCEPT !.status = move_status(@, old_task.status, task.status, task.uid)]
                 ELSE db
        db2 == IF old_task.kind.tag # task.kind.tag
                 THEN [db1 EXCEPT !.kind = move_status(@, old_task.kind.tag, task.kind.tag, task.uid)]
                 ELSE db1
        db3 == IF old_task.started_at # task.started_at /\ task.started_at # NoTime
                 THEN [db2 EXCEPT !.started_at = insert_task_datetime(@, task.started_at, task.uid)]
                 ELSE db2
        db4 == IF old_task.finished_at # task.finished_at /\ task.finished_at # NoTime
                 THEN [db3 EXCEPT !.finished_at = insert_task_datetime(@, task.finished_at, task.uid)]
                 ELSE db3
    IN  IF old_task = task THEN db
        ELSE IF \/ old_task.enqueued_at # task.enqueued_at
                \/ (old_task.started_at # task.started_at /\ old_task.started_at # NoTime)
                \/ (old_task.finished_at # task.finished_at /\ old_task.finished_at # NoTime)
               THEN [db EXCEPT !.fault = "panic"]
        ELSE [db4 EXCEPT !.all_tasks = put_task(@, task)]

RECURSIVE update_tasks(_, _)
\* update_task over a list of tasks, in order
update_tasks(db, tasks) ==
  IF tasks = << >> THEN db ELSE update_tasks(update_task(db, Head(tasks)), Tail(tasks))

\* IndexScheduler::get_existing_tasks: the records of the uids, in order; the
\* uids that have no record make the call fail with CorruptedTaskQueue
get_existing_tasks(tasks, uids) == [i \in 1 .. Len(uids) |-> tasks[uids[i]]]

all_exist(tasks, uids) == \A i \in 1 .. Len(uids) : uids[i] \in DOMAIN tasks

(***************************************************************************)
(* Registration: next uid, the record and its secondary-index entries in   *)
(* one transaction.                                                        *)
(***************************************************************************)
register(db, k, time) ==
  LET uid == next_task_id(db.all_tasks)
      task == Task(uid, time, k)
  IN  [db EXCEPT
         !.all_tasks = put_task(@, task),
         !.status = [@ EXCEPT ![Enqueued] = @ \cup {uid}],
         !.kind = [@ EXCEPT ![k.tag] = @ \cup {uid}],
         !.index_tasks = [i \in IndexNames |-> IF i \in indexes(k) THEN @[i] \cup {uid} ELSE @[i]],
         !.enqueued_at = insert_task_datetime(@, time, uid)]

\* installs the outcome of a transaction
Commit(db) ==
  /\ all_tasks' = db.all_tasks
  /\ status' = db.status
  /\ kind' = db.kind
  /\ index_tasks' = db.index_tasks
  /\ enqueued_at' = db.enqueued_at
  /\ started_at' = db.started_at
  /\ finished_at' = db.finished_at

Register(k, max) ==
  /\ registered < max
  /\ Commit(register(DB, k, now))
  /\ file_store' = IF content_uuid(k) # NoUuid THEN file_store \cup {content_uuid(k)} ELSE file_store
  /\ registered' = registered + 1
  /\ UNCHANGED << index_mapper, index_data, processing_tasks, autobatching_enabled, batch,
                  pc, now, inputs, faults, schema_builder, roundtrip, units >>

(***************************************************************************)
(* The autobatcher: from the enqueued tasks of one index, in uid order,    *)
(* the shape of the batch made of a prefix of them.                        *)
(***************************************************************************)
BatchKind(tag, ids, settings_ids, method, allow, primary_key) ==
  [tag |-> tag, ids |-> ids, settings_ids |-> settings_ids, method |-> method,
   allow_index_creation |-> allow, primary_key |-> primary_key]

\* the first task of the run: the shape it opens, and whether it closes it
BatchKind_new(id, k) ==
  CASE k.tag = "DocumentClear" ->
         [cont |-> TRUE, acc |-> BatchKind("DocumentClear", << id >>, << >>, "-", FALSE, NoKey)]
    [] k.tag = "DocumentAdditionOrUpdate" ->
         [cont |-> TRUE,
          acc |-> BatchKind("DocumentImport", << id >>, << >>, k.method,
                            k.allow_index_creation, k.primary_key)]
    [] k.tag = "DocumentDeletion" ->
         [cont |-> TRUE, acc |-> BatchKind("DocumentDeletion", << id >>, << >>, "-", FALSE, NoKey)]
    [] k.tag = "SettingsUpdate" ->
         [cont |-> TRUE,
          acc |-> BatchKind("Settings", << >>, << id >>, "-", k.allow_index_creation, NoKey)]
    [] OTHER ->
         \* IndexCreation, IndexUpdate, IndexDeletion and IndexSwap stand alone
         [cont |-> FALSE, acc |-> BatchKind(k.tag, << id >>, << >>, "-", FALSE, NoKey)]

\* two declared primary keys can share a batch
same_primary_key(pk1, pk2) == pk1 = NoKey \/ pk2 = NoKey \/ pk1 = pk2

\* one more task offered to the shape built so far
accumulate(acc, id, k) ==
  LET stop == [cont |-> FALSE, acc |-> acc]
      go(b) == [cont |-> TRUE, acc |-> b]
      import_ok == /\ k.tag = "DocumentAdditionOrUpdate"
                   /\ k.method = acc.method
                   /\ same_primary_key(acc.primary_key, k.primary_key)
      with_pk == IF acc.primary_key = NoKey THEN k.primary_key ELSE acc.primary_key
  IN  CASE k.tag \in {"IndexCreation", "IndexUpdate", "IndexSwap"} -> stop
        [] k.tag = "IndexDeletion" ->
             \* the deletion absorbs the data tasks that precede it
             [cont |-> FALSE,
              acc |-> BatchKind("IndexDeletion", SortedSeq(Range(acc.ids) \cup Range(acc.settings_ids) \cup {id}),
                                << >>, "-", acc.allow_index_creation, NoKey)]
        [] acc.tag = "DocumentClear" /\ k.tag \in {"DocumentClear", "DocumentDeletion"} ->
             go([acc EXCEPT !.ids = Append(@, id)])
        [] acc.tag = "DocumentClear" /\ k.tag = "SettingsUpdate" ->
             go(BatchKind("ClearAndSettings", acc.ids, << id >>, "-", k.allow_index_creation, NoKey))
        [] acc.tag = "DocumentImport" /\ import_ok ->
             go([acc EXCEPT !.ids = Append(@, id), !.primary_key = with_pk])
        [] acc.tag = "DocumentImport" /\ k.tag = "SettingsUpdate" ->
             go([acc EXCEPT !.tag = "SettingsAndDocumentImport", !.settings_ids = << id >>])
        [] acc.tag = "DocumentDeletion" /\ k.tag = "DocumentDeletion" ->
             go([acc EXCEPT !.ids = Append(@, id)])
        [] acc.tag = "DocumentDeletion" /\ k.tag = "DocumentClear" ->
             go([acc EXCEPT !.tag = "DocumentClear", !.ids = Append(@, id)])
        [] acc.tag = "Settings" /\ k.tag = "SettingsUpdate" ->
             go([acc EXCEPT !.settings_ids = Append(@, id)])
        [] acc.tag = "Settings" /\ k.tag = "DocumentClear" ->
             go([acc EXCEPT !.tag = "ClearAndSettings", !.ids = << id >>])
        [] acc.tag = "Settings" /\ k.tag = "DocumentAdditionOrUpdate" ->
             go(BatchKind("SettingsAndDocumentImport", << id >>, acc.settings_ids, k.method,
                          acc.allow_index_creation, k.primary_key))
        [] acc.tag = "ClearAndSettings" /\ k.tag = "SettingsUpdate" ->
             go([acc EXCEPT !.settings_ids = Append(@, id)])
        [] acc.tag = "ClearAndSettings" /\ k.tag \in {"DocumentClear", "DocumentDeletion"} ->
             go([acc EXCEPT !.ids = Append(@, id)])
        [] acc.tag = "SettingsAndDocumentImport" /\ k.tag = "SettingsUpdate" ->
             go([acc EXCEPT !.settings_ids = Append(@, id)])
        [] acc.tag = "SettingsAndDocumentImport" /\ import_ok ->
             go([acc EXCEPT !.ids = Append(@, id), !.primary_key = with_pk])
        [] OTHER -> stop

RECURSIVE accumulate_all(_, _)
\* greedy from the head: stops at the first task that does not fit
accumulate_all(acc, enqueued) ==
  IF enqueued = << >> THEN acc
  ELSE LET r == accumulate(acc, Head(enqueued).uid, Head(enqueued).kind)
       IN  IF r.cont THEN accumulate_all(r.acc, Tail(enqueued)) ELSE r.acc

\* the batch shape for the enqueued tasks of one index, and must_create_index
autobatch(enqueued, index_already_exists) ==
  IF enqueued = << >> THEN [some |-> FALSE, batchkind |-> BatchKind("None", << >>, << >>, "-", FALSE, NoKey),
                           must_create_index |-> FALSE]
  ELSE LET first == BatchKind_new(Head(enqueued).uid, Head(enqueued).kind)
       IN  [some |-> TRUE,
            batchkind |-> IF first.cont THEN accumulate_all(first.acc, Tail(enqueued)) ELSE first.acc,
            must_create_index |-> first.acc.allow_index_creation /\ ~index_already_exists]

(***************************************************************************)
(* Batches.                                                                *)
(***************************************************************************)
Batch(tag, op, tasks, settings_tasks, index_uid, must_create_index, primary_key, method) ==
  [tag |-> tag, op |-> op, tasks |-> tasks, settings_tasks |-> settings_tasks,
   index_uid |-> index_uid, must_create_index |-> must_create_index,
   primary_key |-> primary_key, method |-> method]

None == Batch("None", "-", << >>, << >>, NoIndex, FALSE, NoKey, "-")

CorruptedTaskQueue == Batch("CorruptedTaskQueue", "-", << >>, << >>, NoIndex, FALSE, NoKey, "-")

\* a batch of one task that is not an index batch
TaskBatch(tag, task) == Batch(tag, "-", << task >>, << >>, NoIndex, FALSE, NoKey, "-")

\* Batch::ids
ids(b) == [i \in 1 .. Len(b.tasks) |-> b.tasks[i].uid] \o
          [i \in 1 .. Len(b.settings_tasks) |-> b.settings_tasks[i].uid]

\* IndexScheduler::create_next_batch_index
create_next_batch_index(tasks, index_uid, bk, must_create_index) ==
  IF ~all_exist(tasks, bk.ids \o bk.settings_ids) THEN CorruptedTaskQueue
  ELSE
    LET main == get_existing_tasks(tasks, bk.ids)
        settings == get_existing_tasks(tasks, bk.settings_ids)
        operation(op, pk, method) ==
          Batch("IndexOperation", op, main, settings, index_uid, must_create_index, pk, method)
    IN  CASE bk.tag = "DocumentClear" -> operation("DocumentClear", NoKey, "-")
          [] bk.tag = "DocumentImport" ->
               operation("DocumentImport", main[1].kind.primary_key, bk.method)
          [] bk.tag = "DocumentDeletion" -> operation("DocumentDeletion", NoKey, "-")
          [] bk.tag = "Settings" -> operation("Settings", NoKey, "-")
          [] bk.tag = "ClearAndSettings" -> operation("DocumentClearAndSetting", NoKey, "-")
          [] bk.tag = "SettingsAndDocumentImport" ->
               operation("SettingsAndDocumentImport", main[1].kind.primary_key, bk.method)
          [] bk.tag = "IndexCreation" ->
               Batch("IndexCreation", "-", main, << >>, main[1].kind.index_uid, FALSE,
                     main[1].kind.primary_key, "-")
          [] bk.tag = "IndexUpdate" ->
               Batch("IndexUpdate", "-", main, << >>, index_uid, FALSE,
                     main[1].kind.primary_key, "-")
          [] bk.tag = "IndexDeletion" ->
               Batch("IndexDeletion", "-", main, << >>, index_uid, must_create_index, NoKey, "-")
          [] bk.tag = "IndexSwap" ->
               Batch("IndexSwap", "-", main, << >>, NoIndex, FALSE, NoKey, "-")

\* tasks_limit that lets two tasks through when autobatching is disabled
tasks_limit_two(autobatching) == IF autobatching THEN MaxTasks + MaxSwapTasks ELSE 2

\* the number of tasks create_next_batch hands to the autobatcher: no limit
\* (more than the queue can hold), or one when autobatching is disabled
tasks_limit(autobatching) == IF autobatching THEN MaxTasks + MaxSwapTasks ELSE 1

\* enqueued_of_index that forgets to keep the enqueued tasks only
enqueued_of_index_any_status(db, index_name) == db.index_tasks[index_name]

\* the enqueued tasks of an index
enqueued_of_index(db, index_name) == db.index_tasks[index_name] \cap db.status[Enqueued]

\* step 5 of create_next_batch: the next tasks of the index of the oldest enqueued task
next_index_batch(db, mapper, autobatching) ==
  LET enqueued == db.status[Enqueued]
      task_id == Min(enqueued)
  IN  IF task_id \notin DOMAIN db.all_tasks THEN CorruptedTaskQueue
      ELSE
        LET index_name == first_index(db.all_tasks[task_id].kind)
            of_index == SortedSeq(enqueued_of_index(db, index_name))
            limited == Take(of_index, tasks_limit(autobatching))
        IN  IF ~all_exist(db.all_tasks, limited) THEN CorruptedTaskQueue
            ELSE
              LET pairs == [i \in 1 .. Len(limited) |->
                              [uid |-> limited[i], kind |-> db.all_tasks[limited[i]].kind]]
                  found == autobatch(pairs, index_name \in mapper)
              IN  IF found.some
                    THEN create_next_batch_index(db.all_tasks, index_name, found.batchkind,
                                                 found.must_create_index)
                    ELSE None

\* next_cancelation that takes the oldest cancelation
next_cancelation_oldest(to_cancel) == Min(to_cancel)

\* the cancelation create_next_batch selects: the last one
next_cancelation(to_cancel) == Max(to_cancel)

\* next_deletion that takes the newest deletion
next_deletion_newest(to_delete) == Max(to_delete)

\* the deletion create_next_batch selects: the next one
next_deletion(to_delete) == Min(to_delete)

\* IndexScheduler::create_next_batch
create_next_batch(db, mapper, autobatching) ==
  LET enqueued == db.status[Enqueued]
      to_cancel == db.kind["TaskCancelation"] \cap enqueued
      to_delete == db.kind["TaskDeletion"] \cap enqueued
      to_snapshot == db.kind["Snapshot"] \cap enqueued
      to_dump == db.kind["DumpExport"] \cap enqueued
      one(tag, task_id) ==
        IF task_id \in DOMAIN db.all_tasks THEN TaskBatch(tag, db.all_tasks[task_id])
        ELSE CorruptedTaskQueue
  IN  IF to_cancel # {} THEN one("TaskCancelation", next_cancelation(to_cancel))
      ELSE IF to_delete # {} THEN one("TaskDeletion", next_deletion(to_delete))
      ELSE IF to_snapshot # {}
        THEN IF all_exist(db.all_tasks, SortedSeq(to_snapshot))
               THEN Batch("Snapshot", "-", get_existing_tasks(db.all_tasks, SortedSeq(to_snapshot)),
                          << >>, NoIndex, FALSE, NoKey, "-")
               ELSE CorruptedTaskQueue
      ELSE IF to_dump # {} THEN one("Dump", Min(to_dump))
      ELSE IF enqueued # {} THEN next_index_batch(db, mapper, autobatching)
      ELSE None

(***************************************************************************)
(* Cancelation and deletion of tasks.                                      *)
(***************************************************************************)
\* canceled_task that does not record the cancelation task
canceled_task_anonymous(task, cancel_task_id, time) ==
  [task EXCEPT !.status = Canceled, !.finished_at = time]

\* what cancel_matched_tasks writes into a task it cancels
canceled_task(task, cancel_task_id, time) ==
  [task EXCEPT !.status = Canceled, !.canceled_by = cancel_task_id, !.finished_at = time]

RECURSIVE cancel_each(_, _, _, _)
\* the loop of cancel_matched_tasks over the tasks to cancel, in uid order
cancel_each(db, uids, cancel_task_id, time) ==
  IF uids = << >> \/ db.fault # "none" THEN db
  ELSE cancel_each(update_task(db, canceled_task(db.all_tasks[Head(uids)], cancel_task_id, time)),
                   Tail(uids), cancel_task_id, time)

\* the tasks cancel_matched_tasks cancels: the matched ones that are enqueued
tasks_to_cancel(db, matched_tasks) == db.status[Enqueued] \cap matched_tasks

\* IndexScheduler::cancel_matched_tasks: the store afterwards, and the content
\* files its caller has to delete
cancel_matched_tasks(db, cancel_task_id, matched_tasks, time) ==
  LET uids == SortedSeq(tasks_to_cancel(db, matched_tasks))
  IN  IF ~all_exist(db.all_tasks, uids)
        THEN [db |-> [db EXCEPT !.fault = "CorruptedTaskQueue"], content_files |-> << >>]
        ELSE [db |-> cancel_each(db, uids, cancel_task_id, time),
              content_files |->
                SortedSeq({content_uuid(db.all_tasks[u].kind) : u \in Range(uids)} \ {NoUuid})]

\* to_delete_tasks that forgets the matched tasks
to_delete_tasks_unmatched(db, matched_tasks, processing) ==
  (all_task_ids(db) \ processing) \ db.status[Enqueued]

\* to_delete_tasks that spares the processing tasks only
to_delete_tasks_enqueued_too(db, matched_tasks, processing) ==
  (all_task_ids(db) \cap matched_tasks) \ processing

\* the tasks delete_matched_tasks removes
to_delete_tasks(db, matched_tasks, processing) ==
  ((all_task_ids(db) \cap matched_tasks) \ processing) \ db.status[Enqueued]

\* deleted_tasks_count that counts the matched tasks
deleted_tasks_count_matched(db, matched_tasks, processing) == Cardinality(matched_tasks)

\* the count delete_matched_tasks returns
deleted_tasks_count(db, matched_tasks, processing) ==
  Cardinality(to_delete_tasks(db, matched_tasks, processing))

\* IndexScheduler::delete_matched_tasks: the store afterwards, and the number
\* of tasks deleted
delete_matched_tasks(db, matched_tasks, processing) ==
  LET to_delete == to_delete_tasks(db, matched_tasks, processing)
      found == to_delete \cap DOMAIN db.all_tasks
      affected_indexes == UNION {indexes(db.all_tasks[u].kind) : u \in found}
      affected_statuses == {db.all_tasks[u].status : u \in found}
      affected_kinds == {db.all_tasks[u].kind.tag : u \in found}
      at(field, t) == {u \in found : db.all_tasks[u][field] = t}
  IN  IF found # to_delete
        THEN [db |-> [db EXCEPT !.fault = "CorruptedTaskQueue"], count |-> 0]
        ELSE [db |->
                [db EXCEPT
                   !.enqueued_at = [t \in Times |-> @[t] \ at("enqueued_at", t)],
                   !.started_at = [t \in Times |-> @[t] \ at("started_at", t)],
                   !.finished_at = [t \in Times |-> @[t] \ at("finished_at", t)],
                   !.index_tasks = [i \in IndexNames |->
                                      IF i \in affected_indexes THEN @[i] \ to_delete ELSE @[i]],
                   !.status = [s \in Status |->
                                 IF s \in affected_statuses THEN @[s] \ to_delete ELSE @[s]],
                   !.kind = [k \in Kind |->
                               IF k \in affected_kinds THEN @[k] \ to_delete ELSE @[k]],
                   !.all_tasks = delete_tasks(@, to_delete)],
              count |-> deleted_tasks_count(db, matched_tasks, processing)]

(***************************************************************************)
(* Index swap.                                                             *)
(***************************************************************************)
\* swap_name that keeps every name
swap_name_kept(name, lhs, rhs) == name

\* swap_name that renames lhs to rhs and leaves rhs
swap_name_one_way(name, lhs, rhs) == IF name = lhs THEN rhs ELSE name

\* the opposite name of the pair, or the name itself when it is not in the pair
swap_name(name, lhs, rhs) == IF name = lhs THEN rhs ELSE IF name = rhs THEN lhs ELSE name

swap_pairs(swaps, lhs, rhs) ==
  [i \in 1 .. Len(swaps) |-> << swap_name(swaps[i][1], lhs, rhs), swap_name(swaps[i][2], lhs, rhs) >>]

\* utils::swap_index_uid_in_task
swap_index_uid_in_task(task, lhs, rhs) ==
  LET k1 == IF task.kind.tag \in SingleIndexKinds
              THEN [task.kind EXCEPT !.index_uid = swap_name(@, lhs, rhs)]
              ELSE IF task.kind.tag = "IndexSwap"
                THEN [task.kind EXCEPT !.swaps = swap_pairs(@, lhs, rhs)]
                ELSE task.kind
      d1 == IF task.details.tag = "IndexSwap"
              THEN [task.details EXCEPT !.swaps = swap_pairs(@, lhs, rhs)]
              ELSE task.details
  IN  [task EXCEPT !.kind = k1, !.details = d1]

\* IndexScheduler::get_task_ids with a query on one index.  It is not handed
\* the write transaction of its caller: it reads the last committed store.
get_task_ids(committed, index) == all_task_ids(committed) \cap committed.index_tasks[index]

\* IndexScheduler::apply_index_swap
apply_index_swap(db, committed, mapper, task_id, lhs, rhs) ==
  LET index_lhs_task_ids == {u \in get_task_ids(committed, lhs) : u < task_id}
      index_rhs_task_ids == {u \in get_task_ids(committed, rhs) : u < task_id}
      both == index_lhs_task_ids \cup index_rhs_task_ids
  IN  IF db.fault # "none" THEN db
      ELSE IF lhs \notin mapper \/ rhs \notin mapper THEN [db EXCEPT !.fault = "IndexNotFound"]
      ELSE IF ~(both \subseteq DOMAIN db.all_tasks) THEN [db EXCEPT !.fault = "CorruptedTaskQueue"]
      ELSE [db EXCEPT
              !.all_tasks = [u \in DOMAIN @ |->
                               IF u \in both THEN swap_index_uid_in_task(@[u], lhs, rhs) ELSE @[u]],
              !.index_tasks =
                 LET after_lhs == [@ EXCEPT ![lhs] = (@ \ index_lhs_task_ids) \cup index_rhs_task_ids]
                 IN  [after_lhs EXCEPT ![rhs] = (@ \ index_rhs_task_ids) \cup index_lhs_task_ids]]

RECURSIVE apply_index_swaps(_, _, _, _, _)
\* the loop of process_batch over the pairs of an IndexSwap task
apply_index_swaps(db, committed, mapper, task_id, swaps) ==
  IF swaps = << >> THEN db
  ELSE apply_index_swaps(
         apply_index_swap(db, committed, mapper, task_id, Head(swaps)[1], Head(swaps)[2]),
         committed, mapper, task_id, Tail(swaps))

(***************************************************************************)
(* Execution of a batch.                                                   *)
(***************************************************************************)
Outcome(result, tasks, db, mapper, data, files) ==
  [result |-> result, tasks |-> tasks, db |-> db, mapper |-> mapper, data |-> data,
   files |-> files]

\* every task of the list marked Succeeded
succeed(tasks) == [i \in 1 .. Len(tasks) |-> [tasks[i] EXCEPT !.status = Succeeded]]

\* delete_update_files that leaves the files where they are
delete_update_files_none(files, content_files) == files

\* process_batch, Batch::TaskCancelation: the content files of the canceled
\* tasks are deleted
delete_update_files(files, content_files) == files \ Range(content_files)

\* what the store and the disk do during a batch: whether wtxn.commit()
\* succeeds, and the content files delete_update_file fails to delete
Faults(commit, undeletable) == [commit |-> commit, undeletable |-> undeletable]

NoFaults == Faults(TRUE, {})

\* the loop over the content files that stops at the first failure
deletable_until_error(content_files, undeletable) ==
  IF \E i \in 1 .. Len(content_files) : content_files[i] \in undeletable
    THEN SubSeq(content_files, 1,
                Min({i \in 1 .. Len(content_files) : content_files[i] \in undeletable}) - 1)
    ELSE content_files

\* process_batch, Batch::TaskCancelation: the loop over the content files, of
\* which it deletes those whose deletion does not fail; a failure is logged
deletable(content_files, undeletable) ==
  SelectSeq(content_files, LAMBDA uuid : uuid \notin undeletable)

\* process_batch, Batch::TaskCancelation
process_task_cancelation(b, db, mapper, data, files, time, io) ==
  LET task == b.tasks[1]
      done == cancel_matched_tasks(db, task.uid, task.kind.tasks, time)
      finished == [task EXCEPT !.status = Succeeded,
                               !.details.canceled_tasks = Len(done.content_files)]
  IN  IF done.db.fault = "panic" THEN Outcome("panic", << >>, db, mapper, data, files)
      ELSE IF done.db.fault # "none" THEN Outcome(done.db.fault, << >>, db, mapper, data, files)
      ELSE IF ~io.commit THEN Outcome("Heed", << >>, db, mapper, data, files)
      ELSE Outcome("Ok", << finished >>, done.db, mapper, data,
                   delete_update_files(files, deletable(done.content_files, io.undeletable)))

\* process_batch, Batch::TaskDeletion
process_task_deletion(b, db, mapper, data, files, processing) ==
  LET task == b.tasks[1]
      done == delete_matched_tasks(db, task.kind.tasks, processing)
      finished == [task EXCEPT !.status = Succeeded, !.details.deleted_tasks = done.count]
  IN  IF done.db.fault # "none" THEN Outcome(done.db.fault, << >>, db, mapper, data, files)
      ELSE Outcome("Ok", << finished >>, done.db, mapper, data, files)

(***************************************************************************)
(* Operations on one index.  An operation runs in one write transaction of *)
(* the index: Applied holds the index as that transaction leaves it, which *)
(* is kept only when the result is "Ok".  stop tells whether the           *)
(* must_stop_processing flag is set when a milli builder polls it.         *)
(***************************************************************************)
Applied(result, index, tasks) == [result |-> result, index |-> index, tasks |-> tasks]

\* the settings a milli Settings builder refuses to execute
Rejected == "rejected"

\* the documents of an index after the documents of a content file are written
write_documents(documents, uuid) ==
  [d \in DOMAIN documents \cup get_update(uuid).docs |->
     IF d \in get_update(uuid).docs THEN uuid ELSE documents[d]]

\* the count IndexDocuments::add_documents returns for a file it accepts: the
\* number of documents it read from the file
added_documents(uuid) == Cardinality(get_update(uuid).docs)

RECURSIVE add_documents(_, _)
\* apply_index_operation, DocumentImport: the loop over the content files.
\* IndexDocuments::add_documents accepts a file when its documents carry the
\* primary key, which is taken from their key when there is none yet.
add_documents(builder, content_files) ==
  IF content_files = << >> THEN builder
  ELSE
    LET uuid == Head(content_files)
        ok == builder.primary_key \in {NoKey, get_update(uuid).key}
    IN  add_documents(
          [primary_key |-> IF ok THEN get_update(uuid).key ELSE builder.primary_key,
           documents |-> IF ok THEN write_documents(builder.documents, uuid)
                               ELSE builder.documents,
           results |-> Append(builder.results, ok)],
          Tail(content_files))

\* the documents are indexed only when every file was accepted
any_is_ok_all(results) == \A i \in 1 .. Len(results) : results[i]

\* apply_index_operation, DocumentImport: results.iter().any(|res| res.is_ok())
any_is_ok(results) == \E i \in 1 .. Len(results) : results[i]

\* apply_index_operation, DocumentImport: the key the builder starts with, the
\* key of the batch when the index has none
set_primary_key(index, primary_key) ==
  IF primary_key # NoKey /\ index.primary_key = NoKey THEN primary_key ELSE index.primary_key

\* Settings::reset_primary_key
reset_primary_key(index) == [index EXCEPT !.primary_key = NoKey]

\* the primary key is reset whenever every file was refused
after_all_failed_reset(index, primary_key_has_been_set) == reset_primary_key(index)

\* apply_index_operation, DocumentImport: when every file was refused, the
\* primary key is reset if the batch has set it
after_all_failed(index, primary_key_has_been_set) ==
  IF primary_key_has_been_set THEN reset_primary_key(index) ELSE index

\* apply_index_operation, IndexOperation::DocumentImport
apply_document_import(index, primary_key, tasks, stop) ==
  LET primary_key_has_been_set == primary_key # NoKey /\ index.primary_key = NoKey
      content_files == [i \in 1 .. Len(tasks) |-> tasks[i].kind.content_file]
      with_key == [index EXCEPT !.primary_key = set_primary_key(index, primary_key)]
      builder == add_documents([primary_key |-> with_key.primary_key,
                                documents |-> with_key.documents, results |-> << >>],
                               content_files)
      any_ok == any_is_ok(builder.results)
      done == [i \in 1 .. Len(tasks) |->
                 IF builder.results[i]
                   THEN [tasks[i] EXCEPT
                           !.status = Succeeded,
                           !.details.received_documents = added_documents(content_files[i]),
                           !.details.indexed_documents = added_documents(content_files[i])]
                   ELSE [tasks[i] EXCEPT
                           !.status = Failed,
                           !.details.received_documents = documents_count(tasks[i].kind),
                           !.details.indexed_documents = documents_count(tasks[i].kind),
                           !.error = "MissingDocumentId"]]
  IN  IF primary_key_has_been_set /\ stop THEN Applied("Aborted", index, << >>)
      ELSE IF any_ok
        THEN IF stop THEN Applied("Aborted", index, << >>)
             ELSE Applied("Ok", Index(builder.primary_key, builder.documents, index.settings), done)
      ELSE IF primary_key_has_been_set /\ stop THEN Applied("Aborted", index, << >>)
      ELSE Applied("Ok", after_all_failed(with_key, primary_key_has_been_set), done)

\* every DocumentClear task of the batch is credited with the count, the flag
\* first_clear_found never being set
apply_document_clear_each(index, tasks) ==
  Applied("Ok", [index EXCEPT !.documents = << >>],
          [i \in 1 .. Len(tasks) |->
             [tasks[i] EXCEPT
                !.status = Succeeded,
                !.details =
                  IF tasks[i].kind.tag = "DocumentClear"
                    THEN [default_details(tasks[i].kind) EXCEPT
                            !.deleted_documents = Cardinality(DOMAIN index.documents)]
                    ELSE default_details(tasks[i].kind)]])

\* apply_index_operation, IndexOperation::DocumentClear
apply_document_clear(index, tasks) ==
  LET count == Cardinality(DOMAIN index.documents)
      first_clear_found(i) == \E j \in 1 .. i - 1 : tasks[j].kind.tag = "DocumentClear"
  IN  Applied("Ok", [index EXCEPT !.documents = << >>],
              [i \in 1 .. Len(tasks) |->
                 [tasks[i] EXCEPT
                    !.status = Succeeded,
                    !.details =
                      IF tasks[i].kind.tag = "DocumentClear"
                        THEN [default_details(tasks[i].kind) EXCEPT
                                !.deleted_documents = IF first_clear_found(i) THEN 0 ELSE count]
                        ELSE default_details(tasks[i].kind)]])

\* String::len of a document id: the number of bytes of its text
String_len(id) == IF id < 10 THEN 1 ELSE 2

\* the ids of the first task of the batch alone
documents_of_head(tasks) == Head(tasks).kind.documents_ids

RECURSIVE documents_of(_)
\* create_next_batch_index, BatchKind::DocumentDeletion: the ids of the tasks of
\* the batch, one list after the other
documents_of(tasks) ==
  IF tasks = << >> THEN << >>
  ELSE Head(tasks).kind.documents_ids \o documents_of(Tail(tasks))

\* apply_index_operation, IndexOperation::DocumentDeletion
apply_document_deletion(index, tasks) ==
  LET documents == documents_of(tasks)
      deleted_documents == Cardinality(DOMAIN index.documents \cap Range(documents))
  IN  Applied("Ok",
              [index EXCEPT !.documents = [d \in DOMAIN @ \ Range(documents) |-> @[d]]],
              \* tasks.iter_mut().zip(documents): the i-th task meets the i-th
              \* id of the batch, and a task beyond the last id is left as it is
              [i \in 1 .. Len(tasks) |->
                 IF i > Len(documents) THEN tasks[i]
                 ELSE [tasks[i] EXCEPT
                         !.status = Succeeded,
                         !.details.received_document_ids = String_len(documents[i]),
                         !.details.deleted_documents = deleted_documents]])

RECURSIVE apply_settings(_, _, _, _)
\* apply_index_operation, IndexOperation::Settings: one builder per task, the
\* first that fails ends the operation
apply_settings(index, tasks, done, stop) ==
  IF tasks = << >> THEN Applied("Ok", index, done)
  ELSE IF stop THEN Applied("Aborted", index, << >>)
  ELSE IF Head(tasks).kind.new_settings = Rejected THEN Applied("Milli", index, << >>)
  ELSE apply_settings([index EXCEPT !.settings = Head(tasks).kind.new_settings], Tail(tasks),
                      Append(done, [Head(tasks) EXCEPT !.status = Succeeded]), stop)

\* IndexScheduler::apply_index_operation
apply_index_operation(b, index, stop) ==
  CASE b.op = "DocumentClear" -> apply_document_clear(index, b.tasks)
    [] b.op = "DocumentImport" -> apply_document_import(index, b.primary_key, b.tasks, stop)
    [] b.op = "DocumentDeletion" -> apply_document_deletion(index, b.tasks)
    [] b.op = "Settings" -> apply_settings(index, b.settings_tasks, << >>, stop)
    [] b.op = "SettingsAndDocumentImport" ->
         LET settings == apply_settings(index, b.settings_tasks, << >>, stop)
             import == apply_document_import(settings.index, b.primary_key, b.tasks, stop)
         IN  IF settings.result # "Ok" THEN settings
             ELSE IF import.result # "Ok" THEN import
             ELSE Applied("Ok", import.index, settings.tasks \o import.tasks)
    [] b.op = "DocumentClearAndSetting" ->
         LET cleared == apply_document_clear(index, b.tasks)
             settings == apply_settings(cleared.index, b.settings_tasks, << >>, stop)
         IN  IF settings.result # "Ok" THEN settings
             ELSE Applied("Ok", settings.index, settings.tasks \o cleared.tasks)

\* process_batch, Batch::IndexOperation: the index is created, and its creation
\* committed, before the operation is applied
process_index_operation(b, db, mapper, data, files, stop) ==
  IF ~b.must_create_index /\ b.index_uid \notin mapper
    THEN Outcome("IndexNotFound", << >>, db, mapper, data, files)
    ELSE
      LET created == mapper \cup {b.index_uid}
          applied == apply_index_operation(b, data[b.index_uid], stop)
      IN  IF applied.result # "Ok"
            THEN Outcome(applied.result, << >>, db, created, data, files)
            ELSE Outcome("Ok", applied.tasks, db, created,
                         [data EXCEPT ![b.index_uid] = applied.index], files)

\* process_batch, Batch::IndexUpdate
process_index_update(b, db, mapper, data, files, stop) ==
  IF b.index_uid \notin mapper THEN Outcome("IndexNotFound", << >>, db, mapper, data, files)
  ELSE IF b.primary_key # NoKey /\ stop THEN Outcome("Aborted", << >>, db, mapper, data, files)
  ELSE Outcome("Ok",
               << [b.tasks[1] EXCEPT
                     !.status = Succeeded,
                     !.details = Details("IndexInfo", NoCount, NoCount, NoCount, << >>, b.primary_key)] >>,
               db, mapper,
               IF b.primary_key # NoKey
                 THEN [data EXCEPT ![b.index_uid].primary_key = b.primary_key]
                 ELSE data,
               files)

\* process_index_creation that does not create the index
process_index_creation_without_index(b, db, mapper, data, files, stop) ==
  process_index_update(b, db, mapper, data, files, stop)

\* process_index_creation without the check that the index exists already
process_index_creation_again(b, db, mapper, data, files, stop) ==
  process_index_update(b, db, mapper \cup {b.index_uid}, data, files, stop)

\* process_batch, Batch::IndexCreation: the creation of the index is committed,
\* then the batch is processed as an IndexUpdate
process_index_creation(b, db, mapper, data, files, stop) ==
  IF b.index_uid \in mapper THEN Outcome("IndexAlreadyExists", << >>, db, mapper, data, files)
  ELSE process_index_update(b, db, mapper \cup {b.index_uid}, data, files, stop)

\* process_index_deletion that fails whenever the index is missing
process_index_deletion_strict(b, db, mapper, data, files) ==
  IF b.index_uid \notin mapper
    THEN Outcome("IndexNotFound", << >>, db, mapper, data, files)
    ELSE Outcome("Ok", succeed(b.tasks), db, mapper \ {b.index_uid},
                 [data EXCEPT ![b.index_uid] = EmptyIndex], files)

\* process_batch, Batch::IndexDeletion: the documents of the index, none when
\* the index does not exist
number_of_documents(mapper, data, index_uid) ==
  IF index_uid \in mapper THEN Cardinality(DOMAIN data[index_uid].documents) ELSE 0

\* process_batch, Batch::IndexDeletion: every task Succeeded, the IndexDeletion
\* tasks with the number of documents of the index; the details of the other
\* tasks of the batch stay as registered
deleted_index_tasks(tasks, count) ==
  [i \in 1 .. Len(tasks) |->
     IF tasks[i].kind.tag = "IndexDeletion"
       THEN [tasks[i] EXCEPT !.status = Succeeded, !.details.deleted_documents = count]
       ELSE [tasks[i] EXCEPT !.status = Succeeded]]

\* an IndexDeletion that tolerates a missing index whatever the batch is
process_index_deletion_lenient(b, db, mapper, data, files) ==
  Outcome("Ok", deleted_index_tasks(b.tasks, number_of_documents(mapper, data, b.index_uid)),
          db, mapper \ {b.index_uid}, [data EXCEPT ![b.index_uid] = EmptyIndex], files)

\* process_batch, Batch::IndexDeletion (index_has_been_created is must_create_index)
process_index_deletion(b, db, mapper, data, files) ==
  IF b.index_uid \notin mapper /\ ~b.must_create_index
    THEN Outcome("IndexNotFound", << >>, db, mapper, data, files)
    ELSE Outcome("Ok", deleted_index_tasks(b.tasks, number_of_documents(mapper, data, b.index_uid)),
                 db, mapper \ {b.index_uid},
                 [data EXCEPT ![b.index_uid] = EmptyIndex], files)

RECURSIVE swap_indexes(_, _)
\* IndexMapper::swap for every pair of an IndexSwap task
swap_indexes(data, swaps) ==
  IF swaps = << >> THEN data
  ELSE swap_indexes([data EXCEPT ![Head(swaps)[1]] = data[Head(swaps)[2]],
                                 ![Head(swaps)[2]] = data[Head(swaps)[1]]],
                    Tail(swaps))

\* an IndexSwap whose failure keeps what the earlier pairs have written
process_index_swap_partial(b, db, mapper, data, files) ==
  LET task == b.tasks[1]
      done == apply_index_swaps(db, db, mapper, task.uid, task.kind.swaps)
  IN  IF done.fault # "none"
        THEN Outcome(done.fault, << >>, [done EXCEPT !.fault = "none"], mapper, data, files)
      ELSE Outcome("Ok", << [task EXCEPT !.status = Succeeded] >>, done, mapper,
                   swap_indexes(data, task.kind.swaps), files)

\* process_batch, Batch::IndexSwap
process_index_swap(b, db, mapper, data, files) ==
  LET task == b.tasks[1]
      done == apply_index_swaps(db, db, mapper, task.uid, task.kind.swaps)
  IN  IF done.fault # "none" THEN Outcome(done.fault, << >>, db, mapper, data, files)
      ELSE Outcome("Ok", << [task EXCEPT !.status = Succeeded] >>, done, mapper,
                   swap_indexes(data, task.kind.swaps), files)

\* IndexScheduler::process_batch
process_batch(b, db, mapper, data, files, processing, time, stop, io) ==
  CASE b.tag = "TaskCancelation" ->
         process_task_cancelation(b, db, mapper, data, files, time, io)
    [] b.tag = "TaskDeletion" -> process_task_deletion(b, db, mapper, data, files, processing)
    [] b.tag = "Snapshot" -> Outcome("panic", << >>, db, mapper, data, files)
    [] b.tag = "Dump" -> Outcome("Ok", succeed(b.tasks), db, mapper, data, files)
    [] b.tag = "IndexOperation" -> process_index_operation(b, db, mapper, data, files, stop)
    [] b.tag = "IndexCreation" -> process_index_creation(b, db, mapper, data, files, stop)
    [] b.tag = "IndexUpdate" -> process_index_update(b, db, mapper, data, files, stop)
    [] b.tag = "IndexDeletion" -> process_index_deletion(b, db, mapper, data, files)
    [] b.tag = "IndexSwap" -> process_index_swap(b, db, mapper, data, files)

(***************************************************************************)
(* The scheduler loop.                                                     *)
(***************************************************************************)
\* the tasks returned by process_batch, stamped with the dates of the batch
stamped(tasks, started, finished) ==
  [i \in 1 .. Len(tasks) |-> [tasks[i] EXCEPT !.started_at = started, !.finished_at = finished]]

\* the tasks of a failed batch, read back and marked Failed with the error
failed(db, uids, started, finished, error) ==
  [i \in 1 .. Len(uids) |->
     [db.all_tasks[uids[i]] EXCEPT !.started_at = started, !.finished_at = finished,
                                   !.status = Failed, !.error = error]]

\* the content files of the tasks (delete_persisted_task_data)
persisted_task_data(tasks) == {content_uuid(tasks[i].kind) : i \in 1 .. Len(tasks)} \ {NoUuid}

\* what a tick writes: the tasks returned by process_batch with their dates,
\* or the tasks of the batch marked Failed when process_batch returned an error
written_tasks(b, out, started, finished) ==
  IF out.result = "Ok" THEN stamped(out.tasks, started, finished)
  ELSE failed(out.db, ids(b), started, finished, out.result)

\* the failures a batch can meet, as far as the model follows them: those of a
\* TaskCancelation batch, whose commit can fail and whose deletions of content
\* files can fail one by one
io_faults(b, files, faulty) ==
  IF faulty /\ b.tag = "TaskCancelation"
    THEN {Faults(FALSE, {})} \cup {Faults(TRUE, undeletable) : undeletable \in SUBSET files}
    ELSE {NoFaults}

\* one tick of the scheduler loop: select the next batch, process it and write
\* its tasks back; batch keeps the batch of the last tick.  When the batch was
\* aborted nothing is written and no date is recorded: its tasks stay enqueued.
TickUnder(stops, faulty) ==
  /\ pc = "idle"
  /\ \E b \in {create_next_batch(DB, index_mapper, autobatching_enabled)} :
       /\ b.tag \notin {"None", "CorruptedTaskQueue"}
       /\ batch' = b
       /\ \E stop \in stops, io \in io_faults(b, file_store, faulty) :
          /\ faults' = io
          /\ \E out \in {process_batch(b, DB, index_mapper, index_data, file_store,
                                       Range(ids(b)), now, stop, io)} :
            \E written \in {written_tasks(b, out, now, now + 1)} :
              \E final \in {update_tasks(out.db, written)} :
                IF out.result = "Aborted"
                  THEN /\ index_mapper' = out.mapper
                       /\ index_data' = out.data
                       /\ pc' = "idle"
                       /\ UNCHANGED << all_tasks, status, kind, index_tasks, enqueued_at,
                                       started_at, finished_at, file_store, now >>
                ELSE IF out.result = "panic" \/ final.fault # "none"
                  THEN /\ pc' = "panicked"
                       /\ now' = now + 1
                       /\ UNCHANGED << all_tasks, status, kind, index_tasks, enqueued_at,
                                       started_at, finished_at, file_store, index_mapper,
                                       index_data >>
                  ELSE /\ Commit(final)
                       /\ index_mapper' = out.mapper
                       /\ index_data' = out.data
                       /\ file_store' = out.files \ persisted_task_data(written)
                       /\ pc' = "idle"
                       /\ now' = now + 1
  /\ UNCHANGED << processing_tasks, autobatching_enabled, registered, inputs,
                  schema_builder, roundtrip, units >>

\* a tick during which the store and the disk do not fail
TickWith(stops) == TickUnder(stops, FALSE)

\* a tick during which nobody asks the scheduler to stop
Tick == TickWith({FALSE})

(***************************************************************************)
(* The inputs of a registration.  A cancelation or a deletion carries the  *)
(* tasks that matched its query at enqueue time, hence stored tasks.       *)
(***************************************************************************)
\* every set of stored tasks
AnyMatch == SUBSET DOMAIN all_tasks

\* what a query by uid or a query without filter matches
SimpleMatch == {{u} : u \in DOMAIN all_tasks} \cup {DOMAIN all_tasks}

\* the content file of the next registration
NextUuid == registered * 4

\* the content file of the next registration with the content of a class of
\* files: 0 and 1 carry the key "id", 2 and 3 the key "sku"
UuidOf(class) == NextUuid + class

Addition(names) ==
  {DocumentAdditionOrUpdate(i, NoKey, "ReplaceDocuments", NextUuid, TRUE) : i \in names}

\* additions with a declared primary key and the files of some classes
AdditionOf(names, primary_keys, classes) ==
  {DocumentAdditionOrUpdate(i, pk, "ReplaceDocuments", UuidOf(c), TRUE) :
     i \in names, pk \in primary_keys, c \in classes}

Creation(names) == {IndexCreation(i, NoKey) : i \in names}

Clear(names) == {DocumentClear(i) : i \in names}

\* deletions of the document 1
Deletions(names) == {DocumentDeletionOf(i, << 1 >>) : i \in names}

Settings(names) == {SettingsUpdate(i, TRUE) : i \in names}

Cancelation(matches) == {TaskCancelation(m) : m \in matches}

Deletion(matches) == {TaskDeletion(m) : m \in matches}

InitQueue(autobatching, classes) ==
  /\ all_tasks = << >>
  /\ status = [s \in Status |-> {}]
  /\ kind = [k \in Kind |-> {}]
  /\ index_tasks = [i \in IndexNames |-> {}]
  /\ enqueued_at = [t \in Times |-> {}]
  /\ started_at = [t \in Times |-> {}]
  /\ finished_at = [t \in Times |-> {}]
  /\ file_store = {}
  /\ index_mapper = {}
  /\ index_data = [i \in IndexNames |-> EmptyIndex]
  /\ processing_tasks = {}
  /\ autobatching_enabled \in autobatching
  /\ batch = None
  /\ pc = "idle"
  /\ now = 0
  /\ registered = 0
  /\ inputs \in classes
  /\ faults = NoFaults

\* the scheduler as it starts, no schema under test
InitWith(autobatching, classes) ==
  /\ InitQueue(autobatching, classes)
  /\ schema_builder = NoBuilder
  /\ roundtrip = NotRead
  /\ NoUnits

(***************************************************************************)
(* Spec: the task queue under additions, index creations, swaps,           *)
(* cancelations and deletions of tasks.                                    *)
(***************************************************************************)
QueueInputs ==
  Addition({"a"}) \cup Creation({"a", "b"}) \cup {IndexSwap(<< << "a", "b" >> >>)}
    \cup Cancelation(AnyMatch) \cup Deletion(AnyMatch)

RegisterQueue == \E k \in QueueInputs : Register(k, MaxTasks)

Init == InitWith({TRUE}, {"queue"})

Next == RegisterQueue \/ Tick

Spec == Init /\ [][Next]_vars

(***************************************************************************)
(* SpecSwap: index creations and swaps of one or two pairs of indexes.     *)
(***************************************************************************)
\* the index names no stored task refers to
FreshNames == {i \in IndexNames : index_tasks[i] = {}}

SwapInputs ==
  Creation(FreshNames) \cup {IndexSwap(<< << "a", "b" >>, << "c", "d" >> >>)}

RegisterSwap == \E k \in SwapInputs : Register(k, MaxSwapTasks)

NextSwap == RegisterSwap \/ Tick

InitSwap == InitWith({TRUE}, {"swap"})

SpecSwap == InitSwap /\ [][NextSwap]_vars

(***************************************************************************)
(* SpecPriority: tasks of every priority class of create_next_batch.       *)
(***************************************************************************)
PriorityInputs ==
  Cancelation(SimpleMatch) \cup Deletion(SimpleMatch) \cup {Snapshot, DumpExport}
    \cup Addition({"a"})

RegisterPriority == \E k \in PriorityInputs : Register(k, MaxTasks)

NextPriority == RegisterPriority \/ Tick

InitPriority == InitWith({TRUE}, {"priority"})

SpecPriority == InitPriority /\ [][NextPriority]_vars

(***************************************************************************)
(* SpecIndex: the tasks of two indexes, with and without autobatching.     *)
(***************************************************************************)
IndexInputs ==
  Addition({"a", "b"}) \cup Clear({"a"}) \cup Deletions({"a"}) \cup Settings({"a"})
    \cup Creation({"b"}) \cup {IndexDeletion("a")} \cup {IndexSwap(<< << "a", "b" >> >>)}

RegisterIndex == \E k \in IndexInputs : Register(k, MaxTasks)

InitIndex == InitWith(BOOLEAN, {"index"})

NextIndex == RegisterIndex \/ Tick

SpecIndex == InitIndex /\ [][NextIndex]_vars

(***************************************************************************)
(* SpecStore: the behaviours of Spec and those of SpecSwap.                *)
(***************************************************************************)
InitStore == InitWith({TRUE}, {"queue", "swap"})

RegisterStore ==
  \/ inputs = "queue" /\ RegisterQueue
  \/ inputs = "swap" /\ RegisterSwap

NextStore == RegisterStore \/ Tick

SpecStore == InitStore /\ [][NextStore]_vars

(***************************************************************************)
(* SpecBatch: the tasks of one index with their effect on the index, under *)
(* a scheduler that may be asked to stop while it processes a batch.       *)
(***************************************************************************)
BatchInputs ==
  {IndexCreation("a", "id")} \cup AdditionOf({"a"}, {NoKey, "sku"}, {0})
    \cup AdditionOf({"a"}, {NoKey}, {3})
    \cup {SettingsUpdateOf("a", TRUE, s) : s \in {"s1", Rejected}}
    \cup {DocumentClear("a"), DocumentDeletionOf("a", << 1 >>), IndexDeletion("a")}

RegisterBatch == \E k \in BatchInputs : Register(k, MaxTasks)

InitBatch == InitWith({TRUE}, {"batch"})

\* a tick during which the scheduler may be asked to stop
TickOrAbort == TickWith(BOOLEAN)

NextBatchSpec == RegisterBatch \/ TickOrAbort

SpecBatch == InitBatch /\ [][NextBatchSpec]_vars

(***************************************************************************)
(* SpecUpdate: update_task handed any record for a stored task.            *)
(***************************************************************************)
\* the records update_task is handed for the stored task uid: its record with
\* another status and other dates
UpdateInputs(uid) ==
  {[all_tasks[uid] EXCEPT !.status = s, !.enqueued_at = e, !.started_at = st, !.finished_at = f] :
     s \in {all_tasks[uid].status, Succeeded},
     e \in {all_tasks[uid].enqueued_at, all_tasks[uid].enqueued_at + 1},
     st \in {NoTime, 1, 2},
     f \in {NoTime, 2}}

\* one call of update_task in a transaction of its own: committed when it
\* returns, lost when an assertion of update_task fails
UpdateTask ==
  /\ pc = "idle"
  /\ \E uid \in DOMAIN all_tasks : \E task \in UpdateInputs(uid) :
       \E done \in {update_task(DB, task)} :
         IF done.fault # "none"
           THEN /\ pc' = "panicked"
                /\ UNCHANGED << all_tasks, status, kind, index_tasks, enqueued_at, started_at,
                                finished_at >>
           ELSE /\ Commit(done)
                /\ pc' = "idle"
  /\ UNCHANGED << file_store, index_mapper, index_data, processing_tasks, autobatching_enabled,
                  batch, now, registered, inputs, faults, schema_builder,
                  roundtrip, units >>

RegisterUpdate == \E k \in Creation({"a"}) : Register(k, MaxTasks)

InitUpdate == InitWith({TRUE}, {"update"})

NextUpdate == RegisterUpdate \/ UpdateTask

SpecUpdate == InitUpdate /\ [][NextUpdate]_vars

(***************************************************************************)
(* SpecDeletion: additions to one index and one deletion of the index.     *)
(***************************************************************************)
DeletionInputs ==
  Addition({"a"}) \cup (IF kind["IndexDeletion"] = {} THEN {IndexDeletion("a")} ELSE {})

RegisterDeletion == \E k \in DeletionInputs : Register(k, MaxDeletionTasks)

InitDeletion == InitWith({TRUE}, {"deletion"})

NextDeletion == RegisterDeletion \/ Tick

SpecDeletion == InitDeletion /\ [][NextDeletion]_vars

(***************************************************************************)
(* SpecSwapTask: swap_index_uid_in_task applied to one task, once and       *)
(* twice, with a pair of distinct names and with the pair turned round.    *)
(***************************************************************************)
\* the payloads of the tasks under the swap: every kind, on every index, the
\* swaps of one and of two pairs
SwapKinds ==
  UNION {{DocumentAdditionOrUpdate(i, NoKey, "ReplaceDocuments", 0, TRUE),
          DocumentDeletionOf(i, << 1 >>), DocumentClear(i), SettingsUpdate(i, TRUE),
          IndexCreation(i, "id"), IndexUpdate(i, NoKey), IndexDeletion(i)} : i \in IndexNames}
    \cup {IndexSwap(<< << i, j >> >>) : i, j \in {"a", "b", "c"}}
    \cup {IndexSwap(<< << "a", "b" >>, << "c", "d" >> >>),
          IndexSwap(<< << "a", "c" >>, << "d", "b" >> >>),
          TaskCancelation({0}), TaskDeletion({0}), DumpExport, Snapshot}

\* the pairs of distinct index names
SwapPairs == {p \in IndexNames \X IndexNames : p[1] # p[2]}

InitSwapTask ==
  /\ InitQueue({TRUE}, {"swap task"})
  /\ schema_builder = NoBuilder
  /\ roundtrip = NotRead
  /\ shared_schema = Unused
  /\ callers = Unused
  /\ cache = Unused
  /\ query = Unused
  /\ \E k \in SwapKinds, p \in SwapPairs :
       swapped = [task |-> Task(0, 0, k), swap |-> p, applied |-> 0,
                  result |-> Task(0, 0, k), mirrored |-> Task(0, 0, k)]

\* one call of swap_index_uid_in_task on the task, and one with the pair
\* turned round on its copy
SwapIndexUid ==
  /\ inputs = "swap task"
  /\ swapped.applied < 2
  /\ swapped' = [swapped EXCEPT
                   !.applied = @ + 1,
                   !.result = swap_index_uid_in_task(@, swapped.swap[1], swapped.swap[2]),
                   !.mirrored = swap_index_uid_in_task(@, swapped.swap[2], swapped.swap[1])]
  /\ UNCHANGED << all_tasks, status, kind, index_tasks, enqueued_at, started_at, finished_at,
                  file_store, index_mapper, index_data, processing_tasks,
                  autobatching_enabled, batch, pc, now, registered, inputs, faults,
                  schema_builder, roundtrip, shared_schema, callers, cache, query >>

NextSwapTask == SwapIndexUid

SpecSwapTask == InitSwapTask /\ [][NextSwapTask]_vars

(***************************************************************************)
(* SpecCreation: creations of two indexes, with and without a primary key, *)
(* and additions that create the index on their own.                       *)
(***************************************************************************)
CreationInputs ==
  {IndexCreation(i, pk) : i \in {"a", "b"}, pk \in {NoKey, "id", "sku"}}
    \cup AdditionOf({"a"}, {NoKey}, {0})

RegisterCreation == \E k \in CreationInputs : Register(k, MaxTasks)

InitCreation == InitWith({TRUE}, {"creation"})

NextCreation == RegisterCreation \/ TickOrAbort

SpecCreation == InitCreation /\ [][NextCreation]_vars

(***************************************************************************)
(* SpecDocuments: additions, deletions of documents and clears on one      *)
(* index.  The documents of the files are 1 and 2; 10 is a document no     *)
(* file holds, with an id of two bytes.                                    *)
(***************************************************************************)
DocumentsIds == {<< >>, << 1 >>, << 2 >>, << 1, 2 >>, << 10 >>}

DocumentsInputs ==
  AdditionOf({"a"}, {NoKey}, {1}) \cup {DocumentDeletionOf("a", d) : d \in DocumentsIds}
    \cup {DocumentClear("a")}

RegisterDocuments == \E k \in DocumentsInputs : Register(k, MaxTasks)

InitDocuments == InitWith({TRUE}, {"documents"})

NextDocuments == RegisterDocuments \/ Tick

SpecDocuments == InitDocuments /\ [][NextDocuments]_vars

\* the loop has something to do: it is running and create_next_batch returns a
\* batch (the guard of Tick)
Scheduled ==
  /\ pc = "idle"
  /\ create_next_batch(DB, index_mapper, autobatching_enabled).tag
       \notin {"None", "CorruptedTaskQueue"}

\* a tick seen from the clock: the steps that advance now are the ticks that
\* were not stopped, and create_next_batch returns a batch exactly when a task
\* is enqueued (ScheduledIffEnqueued)
Ticked == pc = "idle" /\ status[Enqueued] # {} /\ now' = now + 1

\* SpecDocuments with a scheduler loop that keeps running: a loop that has
\* something to do eventually ticks, and the stop flag is never set
SpecDocumentsLive == SpecDocuments /\ WF_now(Ticked)

(***************************************************************************)
(* SpecCancel: additions to one index and cancelations, with a store whose *)
(* commit can fail and a disk on which the deletion of a file can fail.    *)
(***************************************************************************)
CancelInputs == Addition({"a"}) \cup Cancelation(AnyMatch)

RegisterCancel == \E k \in CancelInputs : Register(k, MaxTasks)

InitCancel == InitWith({TRUE}, {"cancel"})

TickFaulty == TickUnder({FALSE}, TRUE)

NextCancel == RegisterCancel \/ TickFaulty

SpecCancel == InitCancel /\ [][NextCancel]_vars

(***************************************************************************)
(* SpecSchema: a schema is built, written in one of the three formats and  *)
(* read back, as the tests serialize_deserialize* do.  schema_builder holds *)
(* the new_attribute calls: its attributes, then `more` calls with         *)
(* further names and STORED.  roundtrip holds what the comparison of the   *)
(* schema read back with the schema written finds.                         *)
(***************************************************************************)
MaxAttributes == 2

AttributeNames == 1 .. MaxAttributes

SomeProps == {STORED, BitOr(STORED, INDEXED), RANKED}

RECURSIVE Attributes(_)
\* the sequences of n attributes with distinct names
Attributes(n) ==
  IF n = 0 THEN {<< >>}
  ELSE {Append(a, << name, props >>) :
          a \in {b \in Attributes(n - 1) :
                   Cardinality({b[i][1] : i \in 1 .. Len(b)}) = Len(b)},
          name \in AttributeNames, props \in SomeProps}

DistinctAttributes ==
  {a \in UNION {Attributes(n) : n \in 0 .. MaxAttributes} :
     Cardinality({a[i][1] : i \in 1 .. Len(a)}) = Len(a)}

\* the schemas of a few attributes
Builders ==
  {[identifier |-> identifier, attributes |-> attributes, more |-> 0] :
     identifier \in {"id", "sku"}, attributes \in DistinctAttributes}

\* the schemas of 65536 and of 65537 attributes
ManyAttributes ==
  {[identifier |-> "id", attributes |-> attributes, more |-> 65536] :
     attributes \in {<< >>, << << 1, STORED >> >>}}

\* SchemaBuilder::new_attribute, call after call: the attributes of the
\* builder, every name inserted once
new_attributes(b) ==
  b.attributes \o [i \in 1 .. b.more |-> << MaxAttributes + i, STORED >>]

Formats == {"bin", "toml", "json"}

InitSchema ==
  /\ InitQueue({TRUE}, {"schema"})
  /\ NoUnits
  /\ schema_builder \in Builders \cup ManyAttributes
  /\ \E format \in Formats : roundtrip = [NotRead EXCEPT !.format = format]

\* a schema is built, written and read back, and the two schemas are compared
RoundTrip(format) ==
  /\ ~roundtrip.done
  /\ roundtrip.format = format
  /\ \E attributes \in {new_attributes(schema_builder)} :
       \E schema \in {build(self) : self \in {SchemaBuilder(schema_builder.identifier, attributes)}} :
         \E order \in hash_orders(Len(attributes)) :
           \E buffer \in {write(format, schema, order)} :
             \E schema2 \in {read(format, buffer)} :
               roundtrip' = [format |-> format, done |-> TRUE,
                             identifier |-> schema2.identifier,
                             attributes |-> Len(schema2.props),
                             same_identifier |-> schema2.identifier = schema.identifier,
                             same_attrs |-> schema2.attrs = schema.attrs,
                             same_props |-> schema2.props = schema.props]
  /\ UNCHANGED << all_tasks, status, kind, index_tasks, enqueued_at, started_at, finished_at,
                  file_store, index_mapper, index_data, processing_tasks, autobatching_enabled,
                  batch, pc, now, registered, inputs, faults, schema_builder, units >>

\* tests::serialize_deserialize
serialize_deserialize == RoundTrip("bin")

\* tests::serialize_deserialize_toml
serialize_deserialize_toml == RoundTrip("toml")

\* tests::serialize_deserialize_json
serialize_deserialize_json == RoundTrip("json")

NextSchema == serialize_deserialize \/ serialize_deserialize_toml \/ serialize_deserialize_json

SpecSchema == InitSchema /\ [][NextSchema]_vars

(***************************************************************************)
(* SpecNewAttribute: callers of Schema::new_attribute on one shared Schema. *)
(* The ArcSwap holds the InnerSchema; rcu loads it, runs the closure on a  *)
(* clone and swaps the result in when the ArcSwap still holds what was     *)
(* loaded, else it starts again.  Every InnerSchema swapped in is longer   *)
(* than the one it replaces, so the same value is the same pointer.        *)
(***************************************************************************)
MaxCalls == 3

Callers == {1, 2}

\* no SchemaAttr
NoAttr == 0 - 1

\* Schema::new_attribute, the closure handed to rcu: the SchemaAttr chosen and
\* the InnerSchema made from the one loaded
rcu_closure(old, name, schema_props) ==
  LET attr == as_u16(Cardinality(old.attrs))
  IN  [new_attr |-> attr,
       inner |-> InnerSchema(old.identifier,
                             {a \in old.attrs : a[1] # name} \cup {<< name, attr >>},
                             Append(old.props, << name, schema_props >>))]

\* Schema::attribute
attribute(inner, name) ==
  IF \E a \in inner.attrs : a[1] = name
    THEN (CHOOSE a \in inner.attrs : a[1] = name)[2]
    ELSE NoAttr

\* Schema::attribute_name
attribute_name(inner, attr) == inner.props[attr + 1][1]

\* Schema::props
Schema_props(inner, attr) == inner.props[attr + 1][2]

\* a caller that is not inside new_attribute
Outside == [pc |-> "outside", name |-> 0, props |-> STORED, old |-> 0, new |-> 0, new_attr |-> NoAttr]

InitNewAttribute ==
  /\ InitQueue({TRUE}, {"new attribute"})
  /\ schema_builder = NoBuilder
  /\ roundtrip = NotRead
  /\ swapped = Unused
  /\ cache = Unused
  /\ query = Unused
  /\ \E attributes \in {<< >>, << << 1, STORED >> >>} :
       shared_schema = build(SchemaBuilder("id", attributes))
  /\ callers = [of |-> [t \in Callers |-> Outside], returned |-> << >>, calls |-> 0]

NewAttributeUnchanged ==
  UNCHANGED << all_tasks, status, kind, index_tasks, enqueued_at, started_at, finished_at,
               file_store, index_mapper, index_data, processing_tasks, autobatching_enabled,
               batch, pc, now, registered, inputs, faults, schema_builder, roundtrip,
               swapped, cache, query >>

\* a caller enters new_attribute with a name, present or not, and props
new_attribute_call(t) ==
  /\ inputs = "new attribute"
  /\ callers.of[t].pc = "outside"
  /\ callers.calls < MaxCalls
  /\ \E name \in AttributeNames, schema_props \in {STORED, INDEXED} :
       callers' = [callers EXCEPT
                     !.of[t] = [Outside EXCEPT !.pc = "rcu", !.name = name, !.props = schema_props],
                     !.calls = @ + 1]
  /\ UNCHANGED shared_schema
  /\ NewAttributeUnchanged

\* rcu loads the InnerSchema and runs the closure on it
rcu_load(t) ==
  /\ inputs = "new attribute"
  /\ callers.of[t].pc = "rcu"
  /\ \E done \in {rcu_closure(shared_schema, callers.of[t].name, callers.of[t].props)} :
       callers' = [callers EXCEPT
                     !.of[t].pc = "swap", !.of[t].old = shared_schema,
                     !.of[t].new = done.inner, !.of[t].new_attr = done.new_attr]
  /\ UNCHANGED shared_schema
  /\ NewAttributeUnchanged

\* rcu swaps the new InnerSchema in when the ArcSwap still holds the one it
\* loaded, and new_attribute returns new_attr; else rcu starts again.  What
\* attribute, attribute_name and props answer right after the return is kept
\* with the SchemaAttr returned.
rcu_swap(t) ==
  /\ inputs = "new attribute"
  /\ callers.of[t].pc = "swap"
  /\ \E c \in {callers.of[t]} :
       IF shared_schema = c.old
         THEN /\ shared_schema' = c.new
              /\ callers' = [callers EXCEPT
                               !.of[t] = Outside,
                               !.returned =
                                  Append(@, [attr |-> c.new_attr, name |-> c.name,
                                             props |-> c.props,
                                             attribute |-> attribute(c.new, c.name),
                                             attribute_name |-> attribute_name(c.new, c.new_attr),
                                             attribute_props |-> Schema_props(c.new, c.new_attr)])]
         ELSE /\ callers' = [callers EXCEPT !.of[t].pc = "rcu"]
              /\ UNCHANGED shared_schema
  /\ NewAttributeUnchanged

NextNewAttribute ==
  \E t \in Callers : new_attribute_call(t) \/ rcu_load(t) \/ rcu_swap(t)

SpecNewAttribute == InitNewAttribute /\ [][NextNewAttribute]_vars

(***************************************************************************)
(* SorterCacheDelAddCboRoaringBitmap: an LRU cache of DelAddRoaringBitmap   *)
(* in front of a grenad sorter.  A bitmap is the set of its members, an     *)
(* Option<RoaringBitmap> a record that says whether it is Some.  The cache  *)
(* is the sequence of its entries, least recently used first.  The sorter   *)
(* is the bag of the entries inserted in it, which it sorts by key; the     *)
(* value of an entry keeps, under Deletion and Addition, the bitmap whose   *)
(* bytes were written.                                                      *)
(***************************************************************************)
Keys == {1, 2, 3}

Bits == {0, 1}

Caps == {1, 2}

MaxInserts == 3

NoBitmap == [some |-> FALSE, bits |-> {}]

SomeBitmap(bitmap) == [some |-> TRUE, bits |-> bitmap]

DelAddRoaringBitmap(del, add) == [del |-> del, add |-> add]

new_del_add_u32(n) == DelAddRoaringBitmap(SomeBitmap({n}), SomeBitmap({n}))

new_del(bitmap) == DelAddRoaringBitmap(SomeBitmap(bitmap), NoBitmap)

new_del_u32(n) == DelAddRoaringBitmap(SomeBitmap({n}), NoBitmap)

new_add(bitmap) == DelAddRoaringBitmap(NoBitmap, SomeBitmap(bitmap))

new_add_u32(n) == DelAddRoaringBitmap(NoBitmap, SomeBitmap({n}))

\* Option::get_or_insert_with(RoaringBitmap::new) followed by |= bitmap
get_or_insert_with(option, bitmap) ==
  IF option.some THEN SomeBitmap(option.bits \cup bitmap) ELSE SomeBitmap(bitmap)

SorterCacheDelAddCboRoaringBitmap == [cache |-> << >>, sorter |-> EmptyBag]

\* LruCache::get_mut: the entry of the key, which becomes the most recently used
LruCache_get_mut(lru, key) ==
  LET is_key(e) == e.key = key
      is_other(e) == e.key # key
      found == SelectSeq(lru, is_key)
  IN  [found |-> found # << >>, cache |-> SelectSeq(lru, is_other) \o found]

\* LruCache::push: the entry becomes the most recently used; the old entry of
\* the key, or else the least recently used entry of a full cache, is returned
LruCache_push(lru, cap, key, value) ==
  LET is_key(e) == e.key = key
      is_other(e) == e.key # key
      entry == [key |-> key, value |-> value]
  IN  IF SelectSeq(lru, is_key) # << >>
        THEN [cache |-> SelectSeq(lru, is_other) \o << entry >>, old |-> SelectSeq(lru, is_key)]
        ELSE IF Len(lru) >= cap
               THEN [cache |-> Tail(lru) \o << entry >>, old |-> << Head(lru) >>]
               ELSE [cache |-> lru \o << entry >>, old |-> << >>]

write_entry_to_sorter(self, key, deladd) ==
  IF ~deladd.del.some /\ ~deladd.add.some
    THEN self
    ELSE [self EXCEPT !.sorter = @ (+) SetToBag({[key |-> key, Deletion |-> deladd.del, Addition |-> deladd.add]})]

\* the None arm without the write of the entry that push returns
push_and_forget(self, cap, key, value) ==
  [self EXCEPT !.cache = LruCache_push(self.cache, cap, key, value).cache]

\* the None arm of the five insert_* functions
push_or_write(self, cap, key, value) ==
  LET pushed == LruCache_push(self.cache, cap, key, value)
      cached == [self EXCEPT !.cache = pushed.cache]
  IN  IF pushed.old # << >>
        THEN write_entry_to_sorter(cached, pushed.old[1].key, pushed.old[1].value)
        ELSE cached

\* the Some arm: the entry, now the last of the cache, is changed in place
in_place(self, moved, value) ==
  [self EXCEPT !.cache = SubSeq(moved, 1, Len(moved) - 1) \o << [key |-> moved[Len(moved)].key, value |-> value] >>]

insert_del_u32(self, enabled, cap, key, n) ==
  IF ~enabled
    THEN write_entry_to_sorter(self, key, new_del_u32(n))
    ELSE LET hit == LruCache_get_mut(self.cache, key)
             deladd == hit.cache[Len(hit.cache)].value
         IN  IF hit.found
               THEN in_place(self, hit.cache, DelAddRoaringBitmap(get_or_insert_with(deladd.del, {n}), deladd.add))
               ELSE push_or_write(self, cap, key, new_del_u32(n))

insert_del(self, enabled, cap, key, bitmap) ==
  IF ~enabled
    THEN write_entry_to_sorter(self, key, new_del(bitmap))
    ELSE LET hit == LruCache_get_mut(self.cache, key)
             deladd == hit.cache[Len(hit.cache)].value
         IN  IF hit.found
               THEN in_place(self, hit.cache, DelAddRoaringBitmap(get_or_insert_with(deladd.del, bitmap), deladd.add))
               ELSE push_or_write(self, cap, key, new_del(bitmap))

insert_add_u32(self, enabled, cap, key, n) ==
  IF ~enabled
    THEN write_entry_to_sorter(self, key, new_add_u32(n))
    ELSE LET hit == LruCache_get_mut(self.cache, key)
             deladd == hit.cache[Len(hit.cache)].value
         IN  IF hit.found
               THEN in_place(self, hit.cache, DelAddRoaringBitmap(deladd.del, get_or_insert_with(deladd.add, {n})))
               ELSE push_or_write(self, cap, key, new_add_u32(n))

insert_add(self, enabled, cap, key, bitmap) ==
  IF ~enabled
    THEN write_entry_to_sorter(self, key, new_add(bitmap))
    ELSE LET hit == LruCache_get_mut(self.cache, key)
             deladd == hit.cache[Len(hit.cache)].value
         IN  IF hit.found
               THEN in_place(self, hit.cache, DelAddRoaringBitmap(deladd.del, get_or_insert_with(deladd.add, bitmap)))
               ELSE push_or_write(self, cap, key, new_add(bitmap))

insert_del_add_u32(self, enabled, cap, key, n) ==
  IF ~enabled
    THEN write_entry_to_sorter(self, key, new_del_add_u32(n))
    ELSE LET hit == LruCache_get_mut(self.cache, key)
             deladd == hit.cache[Len(hit.cache)].value
         IN  IF hit.found
               THEN in_place(self, hit.cache, DelAddRoaringBitmap(get_or_insert_with(deladd.del, {n}), get_or_insert_with(deladd.add, {n})))
               ELSE push_or_write(self, cap, key, new_del_add_u32(n))

RECURSIVE write_entries(_, _)
write_entries(self, entries) ==
  IF entries = << >>
    THEN self
    ELSE write_entries(write_entry_to_sorter(self, Head(entries).key, Head(entries).value), Tail(entries))

\* the cache is replaced by an empty one and its entries are written, the
\* least recently used first
into_sorter(self) == write_entries([self EXCEPT !.cache = << >>], self.cache).sorter

\* cache.self runs with ENABLED = true, cache.direct is the same sequence of
\* calls with ENABLED = false; inserted is what the calls were given
InitCache ==
  /\ InitQueue({TRUE}, {"cache"})
  /\ schema_builder = NoBuilder
  /\ roundtrip = NotRead
  /\ swapped = Unused
  /\ shared_schema = Unused
  /\ callers = Unused
  /\ query = Unused
  /\ \E cap \in Caps :
       cache = [cap |-> cap,
                self |-> SorterCacheDelAddCboRoaringBitmap,
                direct |-> SorterCacheDelAddCboRoaringBitmap,
                inserted |-> [key \in Keys |-> [del |-> {}, add |-> {}]],
                calls |-> 0,
                sorter |-> EmptyBag,
                direct_sorter |-> EmptyBag,
                done |-> FALSE]

CacheUnchanged ==
  UNCHANGED << all_tasks, status, kind, index_tasks, enqueued_at, started_at, finished_at,
               file_store, index_mapper, index_data, processing_tasks, autobatching_enabled,
               batch, pc, now, registered, inputs, faults, schema_builder, roundtrip,
               swapped, shared_schema, callers, query >>

Inserting == inputs = "cache" /\ ~cache.done /\ cache.calls < MaxInserts

InsertDelU32 ==
  /\ Inserting
  /\ \E key \in Keys, n \in Bits :
       cache' = [cache EXCEPT !.self = insert_del_u32(@, TRUE, cache.cap, key, n),
                              !.direct = insert_del_u32(@, FALSE, cache.cap, key, n),
                              !.inserted[key].del = @ \cup {n},
                              !.calls = @ + 1]
  /\ CacheUnchanged

InsertDel ==
  /\ Inserting
  /\ \E key \in Keys, bitmap \in SUBSET Bits :
       cache' = [cache EXCEPT !.self = insert_del(@, TRUE, cache.cap, key, bitmap),
                              !.direct = insert_del(@, FALSE, cache.cap, key, bitmap),
                              !.inserted[key].del = @ \cup bitmap,
                              !.calls = @ + 1]
  /\ CacheUnchanged

InsertAddU32 ==
  /\ Inserting
  /\ \E key \in Keys, n \in Bits :
       cache' = [cache EXCEPT !.self = insert_add_u32(@, TRUE, cache.cap, key, n),
                              !.direct = insert_add_u32(@, FALSE, cache.cap, key, n),
                              !.inserted[key].add = @ \cup {n},
                              !.calls = @ + 1]
  /\ CacheUnchanged

InsertAdd ==
  /\ Inserting
  /\ \E key \in Keys, bitmap \in SUBSET Bits :
       cache' = [cache EXCEPT !.self = insert_add(@, TRUE, cache.cap, key, bitmap),
                              !.direct = insert_add(@, FALSE, cache.cap, key, bitmap),
                              !.inserted[key].add = @ \cup bitmap,
                              !.calls = @ + 1]
  /\ CacheUnchanged

InsertDelAddU32 ==
  /\ Inserting
  /\ \E key \in Keys, n \in Bits :
       cache' = [cache EXCEPT !.self = insert_del_add_u32(@, TRUE, cache.cap, key, n),
                              !.direct = insert_del_add_u32(@, FALSE, cache.cap, key, n),
                              !.inserted[key] = [del |-> @.del \cup {n}, add |-> @.add \cup {n}],
                              !.calls = @ + 1]
  /\ CacheUnchanged

IntoSorter ==
  /\ inputs = "cache"
  /\ ~cache.done
  /\ cache' = [cache EXCEPT !.sorter = into_sorter(cache.self),
                            !.direct_sorter = into_sorter(cache.direct),
                            !.self = SorterCacheDelAddCboRoaringBitmap,
                            !.direct = SorterCacheDelAddCboRoaringBitmap,
                            !.done = TRUE]
  /\ CacheUnchanged

NextCache == InsertDelU32 \/ InsertDel \/ InsertAddU32 \/ InsertAdd \/ InsertDelAddU32 \/ IntoSorter

SpecCache == InitCache /\ [][NextCache]_vars

(***************************************************************************)
(* add_search_rules: the filter of the tenant's index search rules is put   *)
(* into the search query.  A serde_json Value is a record with its tag; an  *)
(* Option<Value> says whether it is Some.                                   *)
(***************************************************************************)
MaxFilterLen == 2

Value_Null == [tag |-> "Null"]

Value_String(s) == [tag |-> "String", str |-> s]

Value_Array(items) == [tag |-> "Array", items |-> items]

NoFilter == [some |-> FALSE]

SomeFilter(value) == [some |-> TRUE, value |-> value]

\* filter expressions, and an array of expressions as element of an array
FilterElements ==
  {Value_Null, Value_String("tenant = 1"), Value_String("genre = 2"),
   Value_Array(<< Value_String("tenant = 1"), Value_String("genre = 2") >>)}

Filters ==
  {NoFilter}
    \cup {SomeFilter(v) : v \in {Value_Null, Value_String("tenant = 1"), Value_String("genre = 2")}}
    \cup {SomeFilter(Value_Array(items)) :
            items \in UNION {[1 .. n -> FilterElements] : n \in 0 .. MaxFilterLen}}

\* (filter, None) => filter tried first and matching any rules
add_search_rules_query_first(search_query, rules) ==
  IF search_query.filter.some THEN search_query ELSE [search_query EXCEPT !.filter = rules.filter]

add_search_rules(search_query, rules) ==
  [search_query EXCEPT !.filter =
     IF ~search_query.filter.some
       THEN rules.filter
       ELSE IF ~rules.filter.some
              THEN search_query.filter
              ELSE LET filter == IF search_query.filter.value.tag = "Array"
                                   THEN search_query.filter.value.items
                                   ELSE << search_query.filter.value >>
                       rules_filter == IF rules.filter.value.tag = "Array"
                                         THEN rules.filter.value.items
                                         ELSE << rules.filter.value >>
                   IN  SomeFilter(Value_Array(filter \o rules_filter))]

InitSearchRules ==
  /\ InitQueue({TRUE}, {"search rules"})
  /\ schema_builder = NoBuilder
  /\ roundtrip = NotRead
  /\ swapped = Unused
  /\ shared_schema = Unused
  /\ callers = Unused
  /\ cache = Unused
  /\ \E filter \in Filters, rules_filter \in Filters :
       query = [query |-> [q |-> "q", filter |-> filter],
                rules |-> [filter |-> rules_filter],
                given |-> [q |-> "q", filter |-> filter],
                called |-> FALSE]

AddSearchRules ==
  /\ inputs = "search rules"
  /\ ~query.called
  /\ query' = [query EXCEPT !.query = add_search_rules(@, query.rules), !.called = TRUE]
  /\ UNCHANGED << all_tasks, status, kind, index_tasks, enqueued_at, started_at, finished_at,
                  file_store, index_mapper, index_data, processing_tasks, autobatching_enabled,
                  batch, pc, now, registered, inputs, faults, schema_builder, roundtrip,
                  swapped, shared_schema, callers, cache >>

NextSearchRules == AddSearchRules

SpecSearchRules == InitSearchRules /\ [][NextSearchRules]_vars

(***************************************************************************)
(* What the task records say, independently of the secondary indexes.      *)
(***************************************************************************)
Stored == DOMAIN all_tasks

EnqueuedTasks == {u \in Stored : all_tasks[u].status = Enqueued}

EnqueuedOf(tag) == {u \in EnqueuedTasks : all_tasks[u].kind.tag = tag}

IndexBatchTags == {"IndexOperation", "IndexCreation", "IndexUpdate", "IndexDeletion", "IndexSwap"}

\* what create_next_batch returns in the current state
NextBatch == create_next_batch(DB, index_mapper, autobatching_enabled)

\* a step that is a completed tick on a batch of the given kind
Completed(tag) == now' # now /\ pc' = "idle" /\ batch'.tag = tag

(***************************************************************************)
(* Batch selection.                                                        *)
(***************************************************************************)
\* C1: whenever a TaskCancelation is enqueued, create_next_batch returns the
\* TaskCancelation batch of the enqueued cancelation with the greatest uid,
\* whatever else is enqueued.
C1_NewestCancelationFirst ==
  EnqueuedOf("TaskCancelation") # {} =>
    /\ NextBatch.tag = "TaskCancelation"
    /\ ids(NextBatch) = << Max(EnqueuedOf("TaskCancelation")) >>

\* the last tick took a cancelation and passed over an older cancelation that is
\* still enqueued and over an older task of another kind
C1_Witness ==
  /\ batch.tag = "TaskCancelation"
  /\ \E u \in EnqueuedOf("TaskCancelation") : u < batch.tasks[1].uid
  /\ \E v \in Stored : /\ v < batch.tasks[1].uid
                       /\ all_tasks[v].kind.tag # "TaskCancelation"
                       /\ all_tasks[v].started_at = NoTime

\* C2: with no TaskCancelation enqueued the selection is, in this order: the
\* oldest enqueued TaskDeletion; one Snapshot batch of every enqueued Snapshot;
\* the oldest enqueued DumpExport; an index batch; nothing only when nothing is
\* enqueued.
C2_StrictPriority ==
  EnqueuedOf("TaskCancelation") = {} =>
    IF EnqueuedOf("TaskDeletion") # {}
      THEN /\ NextBatch.tag = "TaskDeletion"
           /\ ids(NextBatch) = << Min(EnqueuedOf("TaskDeletion")) >>
    ELSE IF EnqueuedOf("Snapshot") # {}
      THEN /\ NextBatch.tag = "Snapshot"
           /\ ids(NextBatch) = SortedSeq(EnqueuedOf("Snapshot"))
    ELSE IF EnqueuedOf("DumpExport") # {}
      THEN /\ NextBatch.tag = "Dump"
           /\ ids(NextBatch) = << Min(EnqueuedOf("DumpExport")) >>
    ELSE IF EnqueuedTasks # {}
      THEN NextBatch.tag \in IndexBatchTags
    ELSE NextBatch.tag = "None"

\* the last tick took the older of two deletions while an older snapshot, dump
\* or addition was waiting
C2_Witness ==
  /\ batch.tag = "TaskDeletion"
  /\ \E u \in EnqueuedOf("TaskDeletion") : u > batch.tasks[1].uid
  /\ \E v \in EnqueuedTasks :
       /\ v < batch.tasks[1].uid
       /\ all_tasks[v].kind.tag \in {"Snapshot", "DumpExport", "DocumentAdditionOrUpdate"}

\* C3: an index batch holds the oldest enqueued task; its tasks are enqueued
\* tasks of the index of that task; no enqueued task of that index older than a
\* task of the batch is left out; and the tick executes all of them.
C3_IndexTasksInUidOrder ==
  [][(now' # now /\ batch'.tag \in IndexBatchTags) =>
       LET oldest == Min(EnqueuedTasks)
           target == first_index(all_tasks[oldest].kind)
           taken == Range(ids(batch'))
       IN  /\ oldest \in taken
           /\ \A u \in taken : u \in EnqueuedTasks /\ target \in indexes(all_tasks[u].kind)
           /\ \A u \in taken : \A v \in EnqueuedTasks :
                (v < u /\ indexes(all_tasks[v].kind) \cap indexes(all_tasks[u].kind) # {})
                  => v \in taken
           /\ pc' = "idle" => \A u \in taken : all_tasks'[u].status \in {Succeeded, Failed}]_vars

\* the last tick merged two tasks of one index and left an older task of the
\* other index enqueued
C3_Witness ==
  /\ batch.tag \in IndexBatchTags
  /\ Len(ids(batch)) >= 2
  /\ \E v \in EnqueuedTasks : \E i \in 1 .. Len(ids(batch)) : v < ids(batch)[i]
  /\ \A i \in 1 .. Len(ids(batch)) : all_tasks[ids(batch)[i]].status = Succeeded

\* C4: with autobatching disabled an index batch holds exactly one task, the
\* oldest enqueued one.
C4_OneTaskWithoutAutobatching ==
  (~autobatching_enabled /\ NextBatch.tag \in IndexBatchTags) =>
    ids(NextBatch) = << Min(EnqueuedTasks) >>

\* without autobatching the last tick executed one addition alone while another
\* addition to the same index was enqueued
C4_Witness ==
  /\ ~autobatching_enabled
  /\ batch.tag = "IndexOperation"
  /\ batch.op = "DocumentImport"
  /\ Len(ids(batch)) = 1
  /\ \E v \in EnqueuedOf("DocumentAdditionOrUpdate") :
       /\ all_tasks[v].kind.index_uid = batch.index_uid
       /\ all_tasks[v].enqueued_at <= batch.tasks[1].enqueued_at

(***************************************************************************)
(* Cancelation and deletion of tasks.                                      *)
(***************************************************************************)
\* the tasks matched by the cancelation or deletion the step executes
Matched == batch'.tasks[1].kind.tasks

\* C5: a TaskCancelation batch changes, among the tasks other than the
\* cancelation itself, only the matched tasks that are enqueued when it runs:
\* each becomes Canceled, canceled_by the cancelation, finished at the time of
\* the cancelation; every other task keeps its record.
C5_CancelsOnlyEnqueuedMatched ==
  [][Completed("TaskCancelation") =>
       /\ Stored' = Stored
       /\ \A u \in Stored \ {batch'.tasks[1].uid} :
            IF u \in Matched /\ all_tasks[u].status = Enqueued
              THEN all_tasks'[u] = [all_tasks[u] EXCEPT !.status = Canceled,
                                                       !.canceled_by = batch'.tasks[1].uid,
                                                       !.finished_at = now]
              ELSE all_tasks'[u] = all_tasks[u]]_vars

\* a succeeded cancelation that matched a task it canceled and a task that had
\* already succeeded or failed
C5_Witness ==
  \E c \in Stored :
    /\ all_tasks[c].kind.tag = "TaskCancelation"
    /\ all_tasks[c].status = Succeeded
    /\ \E u \in all_tasks[c].kind.tasks \cap Stored : all_tasks[u].canceled_by = c
    /\ \E v \in all_tasks[c].kind.tasks \cap Stored :
         /\ all_tasks[v].status \in {Succeeded, Failed}
         /\ all_tasks[v].finished_at <= all_tasks[c].started_at

\* C6: after a TaskCancelation batch the canceled_tasks counter of the
\* cancelation is the number of matched tasks that were enqueued when it ran,
\* and is not greater than matched_tasks.
C6_CanceledTasksCounter ==
  [][Completed("TaskCancelation") =>
       LET counter == all_tasks'[batch'.tasks[1].uid].details.canceled_tasks
       IN  /\ counter = Cardinality({u \in Matched \cap Stored : all_tasks[u].status = Enqueued})
           /\ counter <= all_tasks'[batch'.tasks[1].uid].details.matched_tasks]_vars

\* C7: the tasks a TaskDeletion batch removes are exactly the matched tasks
\* that are stored with a terminal status; the deletion itself stays.
C7_DeletesOnlyTerminalMatched ==
  [][Completed("TaskDeletion") =>
       /\ Stored \ Stored' = {u \in Matched \cap Stored : all_tasks[u].status \in Terminal}
       /\ batch'.tasks[1].uid \in Stored'
       /\ Stored' \subseteq Stored]_vars

\* a succeeded deletion that matched a task it removed and a task that is still
\* enqueued
C7_Witness ==
  \E d \in Stored :
    /\ all_tasks[d].kind.tag = "TaskDeletion"
    /\ all_tasks[d].status = Succeeded
    /\ \E u \in all_tasks[d].kind.tasks : u \notin Stored
    /\ \E v \in all_tasks[d].kind.tasks \cap Stored :
         all_tasks[v].status = Enqueued /\ all_tasks[v].enqueued_at <= all_tasks[d].enqueued_at

\* C8: after a TaskDeletion batch the deleted_tasks counter of the deletion is
\* the number of records the batch removed, and is not greater than
\* matched_tasks.
C8_DeletedTasksCounter ==
  [][Completed("TaskDeletion") =>
       LET counter == all_tasks'[batch'.tasks[1].uid].details.deleted_tasks
       IN  /\ counter = Cardinality(Stored \ Stored')
           /\ counter <= all_tasks'[batch'.tasks[1].uid].details.matched_tasks]_vars

\* a succeeded deletion that matched two tasks and removed one
C8_Witness ==
  \E d \in Stored :
    /\ all_tasks[d].kind.tag = "TaskDeletion"
    /\ all_tasks[d].status = Succeeded
    /\ all_tasks[d].details.matched_tasks = 2
    /\ all_tasks[d].details.deleted_tasks = 1

C10_UidsContiguous == Stored = 0 .. (Cardinality(Stored) - 1)

\* no stored TaskDeletion has removed a task
NothingDeleted ==
  \A d \in Stored : all_tasks[d].details.deleted_tasks \in {NoCount, 0}

\* C10, amended: as long as no TaskDeletion batch has removed a task the uids of
\* the stored tasks are exactly 0 .. N-1, and in every case they are smaller
\* than the uid of the next registration.
C10_UidsContiguousUntilDeletion ==
  /\ NothingDeleted => Stored = 0 .. (Cardinality(Stored) - 1)
  /\ \A u \in Stored : u < next_task_id(all_tasks)

\* three tasks are stored and a deletion ran without removing any
C10_Witness ==
  /\ Cardinality(Stored) >= 3
  /\ NothingDeleted
  /\ \E d \in Stored : all_tasks[d].details.deleted_tasks = 0

(***************************************************************************)
(* Uids.                                                                   *)
(***************************************************************************)
\* C11: every registration stores one new task, whose uid is one plus the
\* greatest stored uid (0 when the store is empty); this uid was given to no
\* earlier registration, whatever TaskDeletion batches removed in between: it
\* is the number of registrations made so far.
C11_UidsUniqueIncreasing ==
  [][registered' = registered + 1 =>
       \E uid \in {IF Stored = {} THEN 0 ELSE Max(Stored) + 1} :
         /\ uid \notin Stored
         /\ Stored' = Stored \cup {uid}
         /\ all_tasks'[uid].uid = uid
         /\ all_tasks'[uid].status = Enqueued
         /\ uid = registered
         /\ \A u \in Stored : u < uid /\ all_tasks'[u] = all_tasks[u]]_vars

\* a task was registered after a TaskDeletion batch removed a task
C11_Witness ==
  \E d \in Stored : \E u \in Stored :
    /\ all_tasks[d].kind.tag = "TaskDeletion"
    /\ all_tasks[d].details.deleted_tasks >= 1
    /\ u > d
    /\ all_tasks[d].finished_at # NoTime
    /\ all_tasks[u].enqueued_at >= all_tasks[d].finished_at

(***************************************************************************)
(* Terminal tasks.                                                         *)
(***************************************************************************)
TerminalTasks == {u \in Stored : all_tasks[u].status \in Terminal}

\* the record of a task without the index names it refers to
without_index_names(task) ==
  [task EXCEPT !.kind.index_uid = NoIndex, !.kind.swaps = << >>, !.details.swaps = << >>]

\* C12, as stated: a task in a terminal status keeps its stored record in
\* every step, unless a TaskDeletion batch removes it.
C12_TerminalTasksNeverModified ==
  [][\A u \in TerminalTasks :
       \/ u \in Stored' /\ all_tasks'[u] = all_tasks[u]
       \/ u \notin Stored' /\ Completed("TaskDeletion")]_vars

\* C12, amended: a task in a terminal status keeps its status, dates, error,
\* canceled_by, uid and the content of its kind and details in every step; the
\* only changes to its record are the index names of its kind and details,
\* exchanged by a later IndexSwap batch, and its removal by a TaskDeletion
\* batch that matched it.
C12_TerminalTasksKeepAllButIndexNames ==
  [][\A u \in TerminalTasks :
       \/ u \in Stored' /\ all_tasks'[u] = all_tasks[u]
       \/ /\ u \in Stored'
          /\ Completed("IndexSwap")
          /\ u < batch'.tasks[1].uid
          /\ without_index_names(all_tasks'[u]) = without_index_names(all_tasks[u])
       \/ u \notin Stored' /\ Completed("TaskDeletion") /\ u \in Matched]_vars

\* an addition to "a" that is finished refers to "b": a later swap renamed it
C12_Witness ==
  \E u \in TerminalTasks :
    /\ all_tasks[u].kind.tag = "DocumentAdditionOrUpdate"
    /\ all_tasks[u].kind.index_uid = "b"

(***************************************************************************)
(* Failed and aborted batches.                                             *)
(***************************************************************************)
\* a step that is a tick whose batch was aborted: nothing is written back and
\* the clock of the written dates stands still
Aborted == now' = now /\ registered' = registered

\* a step that is a tick whose batch failed as a whole: every task of the batch
\* is written back Failed with the error of the batch
BatchFailed ==
  /\ now' # now
  /\ pc' = "idle"
  /\ \A i \in 1 .. Len(ids(batch')) :
       /\ ids(batch')[i] \in Stored'
       /\ all_tasks'[ids(batch')[i]].status = Failed
       /\ all_tasks'[ids(batch')[i]].error \notin {NoError, "MissingDocumentId"}

\* C13: a batch that fails or is aborted leaves no effect behind: the indexes
\* that exist and their primary key, documents and settings are what they were
\* before the tick, and so is the record of every task outside the batch.
C13_FailedBatchLeavesNoEffect ==
  [][Aborted \/ BatchFailed =>
       /\ index_mapper' = index_mapper
       /\ index_data' = index_data
       /\ \A u \in Stored \ Range(ids(batch')) : u \in Stored' /\ all_tasks'[u] = all_tasks[u]]_vars

\* what a tick that is not asked to stop does with the indexes as given: the
\* tasks of its batch, the result, the status of each task, and the indexes
RerunWith(mapper, data) ==
  CHOOSE run \in
    {IF b.tag \in {"None", "CorruptedTaskQueue"} THEN << b.tag >>
     ELSE CHOOSE summary \in
            {<< ids(b), out.result, [i \in 1 .. Len(out.tasks) |-> out.tasks[i].status],
                out.mapper, out.data >> :
               out \in {process_batch(b, DB, mapper, data, file_store, Range(ids(b)), now, FALSE,
                                      NoFaults)}} :
            TRUE :
       b \in {create_next_batch(DB, mapper, autobatching_enabled)}} : TRUE

\* C14: after a batch was aborted its tasks are stored as they were, Enqueued
\* and without dates, error or details of the attempt, and processing the next
\* batch does what it would have done had the aborted attempt never run.
C14_AbortedBatchRunsAgainAlike ==
  [][Aborted =>
       /\ all_tasks' = all_tasks
       /\ status' = status
       /\ \A i \in 1 .. Len(ids(batch')) : all_tasks'[ids(batch')[i]].status = Enqueued
       /\ RerunWith(index_mapper', index_data') = RerunWith(index_mapper, index_data)]_vars

Refused(old_task, task) ==
  \/ old_task.enqueued_at # task.enqueued_at
  \/ old_task.started_at # NoTime /\ task.started_at # old_task.started_at
  \/ old_task.finished_at # NoTime /\ task.finished_at # old_task.finished_at

\* the time-indexed bitmap after a date of the task went from old to new
Dated(bitmap, old, new, uid) ==
  IF old = NoTime /\ new # NoTime THEN [bitmap EXCEPT ![new] = @ \cup {uid}] ELSE bitmap

\* C16: for every stored task and every record handed to update_task for it:
\* when the record changes enqueued_at or replaces a started_at or finished_at
\* that is set, an assertion fails and nothing is stored; otherwise the record
\* is stored, the enqueued_at bitmap is untouched, and a started_at or
\* finished_at set for the first time is added to its bitmap.
C16_UpdateTaskKeepsDates ==
  \A uid \in Stored : \A task \in UpdateInputs(uid) :
    \E done \in {update_task(DB, task)} :
      IF Refused(all_tasks[uid], task)
        THEN /\ done.fault = "panic"
             /\ done.all_tasks = all_tasks
        ELSE /\ done.fault = "none"
             /\ done.all_tasks = [all_tasks EXCEPT ![uid] = task]
             /\ done.enqueued_at = enqueued_at
             /\ done.started_at =
                  Dated(started_at, all_tasks[uid].started_at, task.started_at, uid)
             /\ done.finished_at =
                  Dated(finished_at, all_tasks[uid].finished_at, task.finished_at, uid)

\* update_task stored a started_at and a finished_at for a task, and then an
\* assertion of update_task failed
C16_Witness ==
  /\ pc = "panicked"
  /\ \E uid \in Stored :
       /\ all_tasks[uid].started_at # NoTime
       /\ uid \in started_at[all_tasks[uid].started_at]
       /\ all_tasks[uid].finished_at # NoTime
       /\ uid \in finished_at[all_tasks[uid].finished_at]

(***************************************************************************)
(* Merged batches.                                                         *)
(***************************************************************************)
\* the batch create_next_batch makes of the task uid when it is handed to the
\* autobatcher alone
single(db, mapper, uid) ==
  CHOOSE b \in
    {create_next_batch_index(db.all_tasks, first_index(db.all_tasks[uid].kind),
                             found.batchkind, found.must_create_index) :
       found \in {autobatch(<< [uid |-> uid, kind |-> db.all_tasks[uid].kind] >>,
                            first_index(db.all_tasks[uid].kind) \in mapper)}} : TRUE

RECURSIVE one_by_one(_, _, _, _)
\* the indexes after the tasks are processed one by one, each in a batch of
\* its own, in the order of the list
one_by_one(uids, db, mapper, data) ==
  IF uids = << >> THEN [mapper |-> mapper, data |-> data]
  ELSE CHOOSE after \in
         {one_by_one(Tail(uids), db, out.mapper, out.data) :
            out \in {process_batch(single(db, mapper, Head(uids)), db, mapper, data, file_store,
                                   {Head(uids)}, now, FALSE, NoFaults)}} : TRUE

\* a step that is a completed tick on a batch of tasks of an index that exists
MergedBatch ==
  /\ now' # now
  /\ pc' = "idle"
  /\ batch'.tag \in {"IndexOperation", "IndexDeletion"}
  /\ batch'.index_uid \in index_mapper

\* C17: after a tick on a batch of tasks of one index, the index exists or
\* not, and has the primary key, documents and settings, as after processing
\* the tasks of the batch one by one in uid order.
C17_MergedBatchAsOneByOne ==
  [][MergedBatch =>
       \E after \in {one_by_one(SortedSeq(Range(ids(batch'))), DB, index_mapper, index_data)} :
         /\ batch'.index_uid \in index_mapper' <=> batch'.index_uid \in after.mapper
         /\ index_data'[batch'.index_uid] = after.data[batch'.index_uid]]_vars

(***************************************************************************)
(* Index swap.                                                             *)
(***************************************************************************)
\* a step that is a completed tick on an IndexSwap batch whose task succeeded
Swapped ==
  /\ Completed("IndexSwap")
  /\ all_tasks'[batch'.tasks[1].uid].status = Succeeded

\* the two indexes of the swap task of the step
Lhs == batch'.tasks[1].kind.swaps[1][1]

Rhs == batch'.tasks[1].kind.swaps[1][2]

\* the stored tasks older than the swap task of the step
Older == {u \in Stored : u < batch'.tasks[1].uid}

\* the index a task refers to after the swap when it referred to i before
Other(i) == IF i = Lhs THEN Rhs ELSE IF i = Rhs THEN Lhs ELSE i

\* the older tasks are renamed and the bitmaps of the two indexes have
\* exchanged them
OlderTasksSwapped ==
  /\ \A u \in Older :
       /\ indexes(all_tasks'[u].kind) = {Other(i) : i \in indexes(all_tasks[u].kind)}
       /\ all_tasks[u].kind.tag \in SingleIndexKinds =>
            all_tasks'[u].kind.index_uid = Other(all_tasks[u].kind.index_uid)
       /\ all_tasks'[u].details.swaps =
            [k \in 1 .. Len(all_tasks[u].details.swaps) |->
               << Other(all_tasks[u].details.swaps[k][1]), Other(all_tasks[u].details.swaps[k][2]) >>]
  /\ index_tasks'[Lhs] \cap Older = index_tasks[Rhs] \cap Older
  /\ index_tasks'[Rhs] \cap Older = index_tasks[Lhs] \cap Older

CreationThenAddition(c, d) ==
  /\ c \in Stored /\ d \in Stored /\ d = c + 1
  /\ all_tasks[c].kind = IndexCreation("a", "id")
  /\ all_tasks[d].kind.tag = "DocumentAdditionOrUpdate"
  /\ all_tasks[d].kind.index_uid = "a"
  /\ all_tasks[d].kind.primary_key = NoKey
  /\ all_tasks[d].kind.method = "ReplaceDocuments"

\* both tasks are enqueued, alone, and the index does not exist
BothEnqueued(c, d) ==
  /\ CreationThenAddition(c, d)
  /\ EnqueuedTasks = {c, d}
  /\ "a" \notin index_mapper
  /\ pc = "idle"

\* the creation has been processed and the addition is enqueued, alone
AdditionEnqueued(c, d) ==
  /\ CreationThenAddition(c, d)
  /\ all_tasks[c].status = Succeeded
  /\ EnqueuedTasks = {d}
  /\ "a" \in index_mapper
  /\ index_data["a"].primary_key = "id"
  /\ pc = "idle"

AdditionsAroundDeletion ==
  /\ 0 .. 5 \subseteq Stored
  /\ \A u \in Stored \ {5} : all_tasks[u].kind.tag = "DocumentAdditionOrUpdate"
                              /\ all_tasks[u].kind.index_uid = "a"
  /\ all_tasks[5].kind = IndexDeletion("a")

\* C20: with five additions to "a", the deletion of "a" and the additions
\* registered after it all enqueued, a tick processes an IndexDeletion batch of
\* the tasks 0 .. 5, which all end Succeeded, and leaves the later additions
\* enqueued; the next tick processes the additions 6 and 7 in a batch with
\* must_create_index = true.  No IndexDeletion batch holds a task registered
\* after its deletion task.
C20_DeletionAbsorbsOlderAdditions ==
  [][/\ AdditionsAroundDeletion /\ EnqueuedTasks = Stored /\ "a" \notin index_mapper
          /\ now' # now =>
            /\ batch'.tag = "IndexDeletion"
            /\ ids(batch') = << 0, 1, 2, 3, 4, 5 >>
            /\ \A u \in 0 .. 5 : all_tasks'[u].status = Succeeded
            /\ \A u \in Stored \ (0 .. 5) : all_tasks'[u] = all_tasks[u]
            /\ "a" \notin index_mapper'
     /\ AdditionsAroundDeletion /\ EnqueuedTasks = {6, 7} /\ "a" \notin index_mapper
          /\ now' # now =>
            /\ batch'.tag = "IndexOperation"
            /\ ids(batch') = << 6, 7 >>
            /\ batch'.must_create_index
            /\ \A u \in {6, 7} : all_tasks'[u].status = Succeeded
            /\ "a" \in index_mapper'
     /\ now' # now /\ batch'.tag = "IndexDeletion" =>
          \E i \in 1 .. Len(batch'.tasks) :
            /\ batch'.tasks[i].kind.tag = "IndexDeletion"
            /\ \A j \in 1 .. Len(batch'.tasks) : batch'.tasks[j].uid <= batch'.tasks[i].uid]_vars

\* the eight tasks were enqueued together; the tasks 0 .. 5 were processed by
\* one tick, the tasks 6 and 7 by the next
C20_Witness ==
  /\ AdditionsAroundDeletion
  /\ Stored = 0 .. 7
  /\ \A u \in Stored : all_tasks[u].status = Succeeded
  /\ all_tasks[7].enqueued_at <= all_tasks[0].started_at
  /\ \A u \in 0 .. 5 : all_tasks[u].started_at = all_tasks[0].started_at
  /\ \A u \in {6, 7} : all_tasks[u].started_at = all_tasks[0].finished_at
  /\ batch.must_create_index
  /\ "a" \in index_mapper

(***************************************************************************)
(* Canceled tasks and the cancelation that canceled them.                  *)
(***************************************************************************)
\* the stored tasks that record the task that canceled them
CanceledTasks == {u \in Stored : all_tasks[u].canceled_by # NoTask}

\* C21: every stored task whose canceled_by is set is Canceled, and the task
\* canceled_by names is stored, is a TaskCancelation, is Succeeded and has the
\* canceled task among its matched tasks, after every batch, TaskDeletion
\* batches included.
C21_CanceledByNamesCancelation ==
  \A u \in CanceledTasks :
    /\ u \in status[Canceled]
    /\ all_tasks[u].canceled_by \in Stored
    /\ all_tasks[all_tasks[u].canceled_by].kind.tag = "TaskCancelation"
    /\ all_tasks[all_tasks[u].canceled_by].status = Succeeded
    /\ u \in all_tasks[all_tasks[u].canceled_by].kind.tasks

(***************************************************************************)
(* The document counts recorded in the details of a task.                  *)
(***************************************************************************)
\* a step that is a tick that ran an operation of the given kinds on an index
\* and wrote its tasks back
CompletedOperation(ops) == Completed("IndexOperation") /\ batch'.op \in ops

\* the DocumentAdditionOrUpdate tasks of the batch of the step
ImportedTasks ==
  {u \in Range(ids(batch')) \cap Stored' : all_tasks'[u].kind.tag = "DocumentAdditionOrUpdate"}

\* C22: after a completed DocumentImport batch, batches in which some tasks
\* fail included, a DocumentAdditionOrUpdate task has indexed_documents set
\* exactly when it is Succeeded, and then not above received_documents (stated
\* for the tasks of the batch, the stored additions the batch wrote).
C22_IndexedDocumentsIffSucceeded ==
  [][CompletedOperation({"DocumentImport", "SettingsAndDocumentImport"}) =>
       \A u \in ImportedTasks :
         /\ all_tasks'[u].details.indexed_documents # NoCount
              <=> all_tasks'[u].status = Succeeded
         /\ all_tasks'[u].details.indexed_documents # NoCount =>
              all_tasks'[u].details.indexed_documents <= all_tasks'[u].details.received_documents]_vars

\* the stored DocumentDeletion tasks that are Succeeded with a count of deleted
\* documents
DeletionTasks ==
  {u \in Stored : /\ all_tasks[u].kind.tag = "DocumentDeletion"
                  /\ all_tasks[u].status = Succeeded
                  /\ all_tasks[u].details.deleted_documents # NoCount}

\* C23: for every Succeeded DocumentDeletion task, deleted_documents is not
\* above the recorded number of received document ids, which is not above the
\* number of document ids of the task's kind, after every DocumentDeletion
\* batch, merged batches included.
C23_DeletedWithinReceivedIds ==
  \A u \in DeletionTasks :
    /\ all_tasks[u].details.deleted_documents <= all_tasks[u].details.received_document_ids
    /\ all_tasks[u].details.received_document_ids <= Len(all_tasks[u].kind.documents_ids)

(***************************************************************************)
(* Serialized schemas.                                                     *)
(***************************************************************************)
\* C24: a schema built by SchemaBuilder, with any identifier and any sequence
\* of attributes with distinct names, that is written with write_to_bin,
\* to_toml or to_json and read back with the matching reader has the same
\* identifier, the same mapping of names to SchemaAttr and the same ordered
\* props.
C24_SchemaRoundTrips ==
  roundtrip.done =>
    roundtrip.same_identifier /\ roundtrip.same_attrs /\ roundtrip.same_props

\* the number of attributes of the schema under test
AttributesBuilt == Len(schema_builder.attributes) + schema_builder.more

\* what holds of every round trip: the identifier is read back, and so are the
\* attributes when there are at most 65536 of them; of more, 65536 are read back
SchemaRoundTripsUpToU16 ==
  roundtrip.done =>
    /\ roundtrip.same_identifier
    /\ roundtrip.attributes = Min({AttributesBuilt, 65536})
    /\ AttributesBuilt <= 65536 => roundtrip.same_attrs /\ roundtrip.same_props

(***************************************************************************)
(* The content files of canceled tasks.                                    *)
(***************************************************************************)
\* the content files of the tasks the cancelation of the step cancels: those
\* of its matched tasks that are enqueued before the step
CanceledFiles ==
  {content_uuid(all_tasks[u].kind) : u \in Matched \cap EnqueuedTasks} \ {NoUuid}

\* C25: in a TaskCancelation batch, when the commit of the write transaction
\* fails no content file is deleted, no task is canceled and the cancelation
\* task gets the error; when it succeeds the cancelation task is Succeeded and
\* every content file of the canceled tasks is deleted except those whose
\* deletion fails, whichever of them fail.
C25_FilesDeletedAfterCommit ==
  [][Completed("TaskCancelation") =>
       IF faults'.commit
         THEN /\ all_tasks'[batch'.tasks[1].uid].status = Succeeded
              /\ file_store' = file_store \ (CanceledFiles \ faults'.undeletable)
         ELSE /\ all_tasks'[batch'.tasks[1].uid].status = Failed
              /\ all_tasks'[batch'.tasks[1].uid].error # NoError
              /\ file_store' = file_store
              /\ \A u \in Stored \ {batch'.tasks[1].uid} : all_tasks'[u] = all_tasks[u]]_vars

\* a cancelation has canceled two additions: the file of the older one could
\* not be deleted and is still there, the file of the newer one is deleted
C25_Witness ==
  /\ pc = "idle"
  /\ batch.tag = "TaskCancelation"
  /\ faults.commit
  /\ \E u, v \in CanceledTasks :
       /\ u < v
       /\ all_tasks[u].canceled_by = batch.tasks[1].uid
       /\ all_tasks[v].canceled_by = batch.tasks[1].uid
       /\ content_uuid(all_tasks[u].kind) \in faults.undeletable \cap file_store
       /\ content_uuid(all_tasks[v].kind) \notin file_store \cup {NoUuid}

(***************************************************************************)
(* DocumentImport batches.                                                 *)
(***************************************************************************)
\* a step that is a tick that imported documents and wrote the tasks back with
\* their own results
Imported ==
  /\ CompletedOperation({"DocumentImport", "SettingsAndDocumentImport"})
  /\ ~BatchFailed

\* the index of the batch of the step, before and after the step
IndexBefore == index_data[batch'.index_uid]

IndexAfter == index_data'[batch'.index_uid]

\* the content file of the i-th addition of the batch of the step
FileOf(i) == get_update(batch'.tasks[i].kind.content_file)

\* the primary key the documents of the batch are checked against: the key of
\* the index, else the key the batch declares, else the key of its first file
KeyInForce ==
  IF IndexBefore.primary_key # NoKey THEN IndexBefore.primary_key
  ELSE IF batch'.primary_key # NoKey THEN batch'.primary_key
  ELSE FileOf(1).key

\* the additions of the batch whose file is accepted
Accepted == {i \in 1 .. Len(batch'.tasks) : FileOf(i).key = KeyInForce}

\* C26: in a DocumentImport batch a task is Failed, with its error, exactly
\* when adding its content file returned a user error, and Succeeded
\* otherwise; when at least one task succeeded the documents of the successful
\* tasks are committed, a document written by the last successful file that
\* holds it.
C26_FailedIffUserError ==
  [][Imported =>
       /\ \A i \in 1 .. Len(batch'.tasks) :
            IF i \in Accepted
              THEN /\ all_tasks'[batch'.tasks[i].uid].status = Succeeded
                   /\ all_tasks'[batch'.tasks[i].uid].error = NoError
              ELSE /\ all_tasks'[batch'.tasks[i].uid].status = Failed
                   /\ all_tasks'[batch'.tasks[i].uid].error # NoError
       /\ Accepted # {} =>
            /\ DOMAIN IndexAfter.documents =
                 DOMAIN IndexBefore.documents \cup UNION {FileOf(i).docs : i \in Accepted}
            /\ \A d \in DOMAIN IndexAfter.documents :
                 IndexAfter.documents[d] =
                   IF \E i \in Accepted : d \in FileOf(i).docs
                     THEN batch'.tasks[Max({i \in Accepted : d \in FileOf(i).docs})].kind.content_file
                     ELSE IndexBefore.documents[d]]_vars

\* a batch of two additions has run: one is Failed, the other Succeeded and its
\* documents are in the index
C26_Witness ==
  /\ pc = "idle"
  /\ batch.tag = "IndexOperation"
  /\ batch.op = "DocumentImport"
  /\ Len(batch.tasks) = 2
  /\ \E i, j \in 1 .. 2 :
       /\ batch.tasks[i].uid \in status[Failed]
       /\ batch.tasks[j].uid \in status[Succeeded]
       /\ \E d \in DOMAIN index_data[batch.index_uid].documents :
            index_data[batch.index_uid].documents[d] = batch.tasks[j].kind.content_file

\* a step that is a tick that ran a DocumentImport in which every addition was
\* refused
AllRefused ==
  /\ Imported
  /\ \A i \in 1 .. Len(batch'.tasks) : all_tasks'[batch'.tasks[i].uid].status = Failed

\* C27: after a DocumentImport batch in which every task fails, the primary
\* key of the index is what it was before the batch: a key the batch has set
\* is reset, a key the index had is kept.
C27_AllFailedKeepsPrimaryKey ==
  [][AllRefused => IndexAfter.primary_key = IndexBefore.primary_key]_vars

\* a batch that declares a primary key has run on an index without one and
\* every addition was refused: the index exists and has no primary key
C27_Witness ==
  /\ pc = "idle"
  /\ batch.tag = "IndexOperation"
  /\ batch.op = "DocumentImport"
  /\ batch.primary_key # NoKey
  /\ \A i \in 1 .. Len(batch.tasks) : batch.tasks[i].uid \in status[Failed]
  /\ \A i \in 1 .. Len(batch.tasks) :
       batch.tasks[i].uid \in Stored /\ all_tasks[batch.tasks[i].uid].error = "MissingDocumentId"
  /\ batch.index_uid \in index_mapper
  /\ index_data[batch.index_uid].primary_key = NoKey

\* the primary key the i-th addition of the batch of the step declares
Declared(i) == batch'.tasks[i].kind.primary_key

\* C28: in a merged DocumentImport batch all the tasks that declare a primary
\* key declare the same one, and when the index has no primary key the
\* declared key is the one the documents are indexed under, whichever task of
\* the batch declares it.
C28_DeclaredKeyIsSet ==
  [][Imported /\ batch'.op = "DocumentImport" =>
       /\ \A i, j \in 1 .. Len(batch'.tasks) :
            Declared(i) # NoKey /\ Declared(j) # NoKey => Declared(i) = Declared(j)
       /\ IndexBefore.primary_key = NoKey =>
            \A i \in 1 .. Len(batch'.tasks) :
              Declared(i) # NoKey =>
                /\ batch'.primary_key = Declared(i)
                /\ KeyInForce = Declared(i)]_vars

\* the number DeleteDocuments::execute returned to the batch of the step: the
\* documents the index lost
Deleted == Cardinality(DOMAIN IndexBefore.documents \ DOMAIN IndexAfter.documents)

TaskAfter(i) == all_tasks'[batch'.tasks[i].uid]

Clears == {i \in 1 .. Len(batch'.tasks) : batch'.tasks[i].kind.tag = "DocumentClear"}

C31_IndexDeletionToleratesMissing ==
  [][Completed("IndexDeletion") =>
       LET missing == batch'.index_uid \notin index_mapper
           count == IF missing THEN 0 ELSE Cardinality(DOMAIN IndexBefore.documents)
       IN  IF missing /\ ~batch'.must_create_index
             THEN /\ \A i \in 1 .. Len(batch'.tasks) :
                       /\ TaskAfter(i).status = Failed
                       /\ TaskAfter(i).error = "IndexNotFound"
                  /\ index_mapper' = index_mapper
                  /\ index_data' = index_data
             ELSE /\ \A i \in 1 .. Len(batch'.tasks) :
                       /\ TaskAfter(i).status = Succeeded
                       /\ TaskAfter(i).kind.tag = "IndexDeletion" =>
                            TaskAfter(i).details.deleted_documents = count
                  /\ index_mapper' = index_mapper \ {batch'.index_uid}]_vars

\* an IndexDeletion merged with an addition that may create the index has run
\* while the index did not exist: both tasks are Succeeded, the deletion with
\* 0 deleted documents, and there is no index
C31_Witness ==
  /\ pc = "idle"
  /\ batch.tag = "IndexDeletion"
  /\ batch.must_create_index
  /\ Len(batch.tasks) = 2
  /\ batch.tasks[1].kind.tag = "DocumentAdditionOrUpdate"
  /\ batch.tasks[2].kind.tag = "IndexDeletion"
  /\ \A i \in 1 .. 2 : batch.tasks[i].uid \in status[Succeeded]
  /\ all_tasks[batch.tasks[2].uid].details.deleted_documents = 0
  /\ batch.tasks[1].uid = 0
  /\ batch.index_uid \notin index_mapper

\* the pairs of the IndexSwap task of the batch of the step
SwapsOf == batch'.tasks[1].kind.swaps

\* C32: an IndexSwap batch in which an index of any pair does not exist fails
\* with IndexNotFound and changes nothing: the swap task is Failed with its
\* kind and details as registered, no other task record is rewritten, no
\* index_tasks set changes and no index is swapped, the earlier pairs of the
\* task included.
C32_FailedSwapChangesNothing ==
  [][/\ Completed("IndexSwap")
     /\ \E i \in 1 .. Len(SwapsOf) : {SwapsOf[i][1], SwapsOf[i][2]} \ index_mapper # {}
     => /\ TaskAfter(1).status = Failed
        /\ TaskAfter(1).error = "IndexNotFound"
        /\ TaskAfter(1).kind = all_tasks[batch'.tasks[1].uid].kind
        /\ TaskAfter(1).details = all_tasks[batch'.tasks[1].uid].details
        /\ \A u \in Stored \ {batch'.tasks[1].uid} : all_tasks'[u] = all_tasks[u]
        /\ Stored' = Stored
        /\ index_tasks' = index_tasks
        /\ index_mapper' = index_mapper
        /\ index_data' = index_data]_vars

\* a swap of the pairs (a, b) and (c, d) has failed while a and b existed and
\* c did not: the tasks that created a and b still name a and b
C32_Witness ==
  /\ pc = "idle"
  /\ batch.tag = "IndexSwap"
  /\ batch.tasks[1].uid \in status[Failed]
  /\ all_tasks[batch.tasks[1].uid].error = "IndexNotFound"
  /\ {"a", "b"} \subseteq index_mapper
  /\ "c" \notin index_mapper
  /\ \E u, v \in status[Succeeded] :
       /\ all_tasks[u].kind = IndexCreation("a", NoKey) /\ u \in index_tasks["a"]
       /\ all_tasks[v].kind = IndexCreation("b", NoKey) /\ v \in index_tasks["b"]

\* C33: an IndexCreation batch that runs to its end creates the index when it
\* does not exist, empty, and sets the primary key when the task gives one;
\* when the index already exists it fails with IndexAlreadyExists and leaves
\* the index, its primary key and the index mapper unchanged.
C33_CreationOrAlreadyExists ==
  [][Completed("IndexCreation") =>
       LET given == all_tasks[batch'.tasks[1].uid].kind.primary_key
       IN  IF batch'.index_uid \in index_mapper
             THEN /\ TaskAfter(1).status = Failed
                  /\ TaskAfter(1).error = "IndexAlreadyExists"
                  /\ index_mapper' = index_mapper
                  /\ index_data' = index_data
             ELSE /\ TaskAfter(1).status = Succeeded
                  /\ TaskAfter(1).details.primary_key = given
                  /\ index_mapper' = index_mapper \cup {batch'.index_uid}
                  /\ IndexAfter = Index(given, << >>, NoSettings)
                  /\ \A i \in IndexNames \ {batch'.index_uid} :
                       index_data'[i] = index_data[i]]_vars

\* the index a exists with the key "id" taken from its documents, and a
\* creation of a with the key "sku" has failed
C33_Witness ==
  /\ pc = "idle"
  /\ batch.tag = "IndexCreation"
  /\ batch.index_uid = "a"
  /\ batch.primary_key = "sku"
  /\ batch.tasks[1].uid \in status[Failed]
  /\ all_tasks[batch.tasks[1].uid].error = "IndexAlreadyExists"
  /\ "a" \in index_mapper
  /\ index_data["a"].primary_key = "id"
  /\ DOMAIN index_data["a"].documents # {}

(***************************************************************************)
(* Snapshots.                                                              *)
(***************************************************************************)
\* C34: a Snapshot batch runs to completion and marks every task of the batch
\* Succeeded.
C34_SnapshotSucceeds ==
  [][now' # now /\ batch'.tag = "Snapshot" =>
       /\ pc' = "idle"
       /\ \A i \in 1 .. Len(batch'.tasks) : TaskAfter(i).status = Succeeded]_vars

ScheduledIffEnqueued == Scheduled <=> (pc = "idle" /\ status[Enqueued] # {})

\* what process_batch returns for the batch create_next_batch selects in the
\* current state, the scheduler not being stopped
Returned ==
  process_batch(NextBatch, DB, index_mapper, index_data, file_store, Range(ids(NextBatch)),
                now, FALSE, NoFaults)

Referenced == indexes(swapped.task.kind) \cup indexes([tag |-> "IndexSwap", swaps |-> swapped.task.details.swaps])

\* C37: for two distinct index names a and b, swap_index_uid_in_task applied
\* twice with (a, b) restores the kind and the details of the task, applied
\* with (b, a) it gives what it gives with (a, b), and it leaves a task that
\* refers to neither a nor b as it is.
C37_SwapIsInvolution ==
  inputs = "swap task" =>
    /\ swapped.applied = 2 => swapped.result = swapped.task
    /\ swapped.result = swapped.mirrored
    /\ Referenced \cap {swapped.swap[1], swapped.swap[2]} = {} => swapped.result = swapped.task

\* the swap (a, b) has been applied twice to an IndexSwap task of the pairs
\* (a, c) and (d, b), which was renamed in between
C37_Witness ==
  /\ inputs = "swap task"
  /\ swapped.applied = 2
  /\ swapped.swap = << "a", "b" >>
  /\ swapped.task.kind = IndexSwap(<< << "a", "c" >>, << "d", "b" >> >>)
  /\ swapped.result.details.swaps = << << "a", "c" >>, << "d", "b" >> >>
  /\ swap_index_uid_in_task(swapped.result, "a", "b").kind.swaps = << << "b", "c" >>, << "d", "a" >> >>

(***************************************************************************)
(* Schema::new_attribute.                                                  *)
(***************************************************************************)
\* C38: Schema::new_attribute, called any number of times, also concurrently
\* and also with a name already present, returns a SchemaAttr distinct from
\* every attribute handed out before, the attributes of the schema as built
\* included, and afterwards attribute(name) returns that SchemaAttr and
\* attribute_name and props of that SchemaAttr return the name and the props
\* just given.
C38_NewAttributeIsFresh ==
  inputs = "new attribute" =>
    \A i \in 1 .. Len(callers.returned) :
      LET r == callers.returned[i]
      IN  /\ \A j \in 1 .. i - 1 : callers.returned[j].attr # r.attr
          /\ r.attr >= Len(shared_schema.props) - Len(callers.returned)
          /\ r.attribute = r.attr
          /\ r.attribute_name = r.name
          /\ r.attribute_props = r.props

\* the union of the bitmaps the entries of a key carry under Deletion, or Addition
written(sorter, key, deletion) ==
  UNION {IF deletion THEN entry.Deletion.bits ELSE entry.Addition.bits :
           entry \in {e \in BagToSet(sorter) : e.key = key}}

\* C39: after into_sorter, for every key, the union of the deletion bitmaps and
\* the union of the addition bitmaps written to the sorter are the unions of
\* what the insert_* calls were given for the key, and they are the unions
\* written by the same calls when the cache is bypassed (ENABLED = false).
C39_CacheLosesNothing ==
  (inputs = "cache" /\ cache.done) =>
    \A key \in Keys :
      /\ written(cache.sorter, key, TRUE) = cache.inserted[key].del
      /\ written(cache.sorter, key, FALSE) = cache.inserted[key].add
      /\ written(cache.direct_sorter, key, TRUE) = written(cache.sorter, key, TRUE)
      /\ written(cache.direct_sorter, key, FALSE) = written(cache.sorter, key, FALSE)

\* an entry was evicted and written before into_sorter wrote a second entry
\* for the same key, and the key was given both deletions and additions
C39_Witness ==
  /\ inputs = "cache"
  /\ cache.done
  /\ cache.calls = MaxInserts
  /\ \E e, f \in BagToSet(cache.sorter) :
       /\ e # f
       /\ e.key = f.key
       /\ cache.inserted[e.key].del # {}
       /\ cache.inserted[e.key].add # {}

\* the elements of a filter: those of an array, or else the filter itself
filter_elements(option) ==
  IF ~option.some
    THEN {}
    ELSE IF option.value.tag = "Array"
           THEN {option.value.items[i] : i \in 1 .. Len(option.value.items)}
           ELSE {option.value}

\* C40: after add_search_rules, when the rules carry a filter the filter of the
\* query has every element of the rules' filter and every element of the
\* filter the query had; when the rules carry none, the query's filter is the
\* one it had.  Nothing else of the query changes.
C40_RulesFilterIsKept ==
  (inputs = "search rules" /\ query.called) =>
    /\ IF query.rules.filter.some
         THEN /\ filter_elements(query.rules.filter) \subseteq filter_elements(query.query.filter)
              /\ filter_elements(query.given.filter) \subseteq filter_elements(query.query.filter)
              /\ query.query.filter.some
         ELSE query.query.filter = query.given.filter
    /\ query.query.q = query.given.q

\* a query with one filter expression met rules with an array of two
C40_Witness ==
  /\ inputs = "search rules"
  /\ query.called
  /\ query.given.filter.some
  /\ query.given.filter.value.tag = "String"
  /\ query.rules.filter.some
  /\ query.rules.filter.value.tag = "Array"
  /\ Len(query.rules.filter.value.items) = 2
  /\ query.query.filter.value.tag = "Array"
  /\ Len(query.query.filter.value.items) = 3

====
